---- MODULE Spec2Model ----
(***************************************************************************)
(* Identifier resolution of the Docker MCP tools: ContainerTools,          *)
(* ImageTools, NetworkTools and VolumeTools (src/tools/*.py), and the      *)
(* project directory lookup and the compose commands of ComposeTools.      *)
(*                                                                         *)
(* A behaviour follows one tool object and its Docker client.  The Docker  *)
(* runtime is the external state the client reads (get, list) and changes  *)
(* (start, stop, remove, run); other clients create and remove resources   *)
(* at any time.  Strings are sequences of one-character strings, so that   *)
(* str.lower() and the `in` substring test are computed, not assumed.      *)
(*                                                                         *)
(* Spec follows a Docker tool object.  LocateSpec follows                  *)
(* ComposeTools._find_project_dir over a changing filesystem, environment  *)
(* and working directory; ComposeSpec follows a ComposeTools object from   *)
(* its construction through its compose_* operations.  ContainerRefSpec    *)
(* follows the operations of NetworkTools and VolumeTools that take a      *)
(* container identifier, ToolsSpec any one of the five tool objects, and   *)
(* ConcurrentSpec two callers of one tool object.                          *)
(***************************************************************************)
EXTENDS Integers, Sequences, FiniteSets, TLC

\* ------------------------------------------------------------------ bounds
\* Longest identifier a caller passes.
MaxQueryLen == 2
\* Most resources of one kind the runtime holds at a time.
MaxRes == 2
\* Deepest directory of the filesystem, counted from the root.
MaxDepth == 2
\* Most compose files the filesystem holds at a time.
MaxMarkers == 2

\* -------------------------------------------------------------------- state
VARIABLES
    tool,       \* the tool object the behaviour follows
    runtime,    \* per kind, the runtime's resources in listing order
    hashSeed,   \* the process's string-hash seed
    call,       \* the public operation in progress, or the last one finished
    prev,       \* what the call before returned, while the runtime is unchanged
    fs,         \* the filesystem: its directories and the compose files in them
    env,        \* os.environ, the three keys the lookup reads
    cwd,        \* os.getcwd()
    comp,       \* the ComposeTools object and its operation in progress
    parked      \* the call of a second caller, while the first one's runs

vars == <<tool, runtime, hashSeed, call, prev>>
cvars == <<fs, env, cwd, comp, parked>>
allvars == <<vars, cvars>>

\* ----------------------------------------------------------------- strings
Chars == {"a", "b", "A"}

\* The placeholder tag "<none>" is one token: it holds no character of Chars.
NoneTag == <<"<none>">>

RECURSIVE StrUpTo(_)
StrUpTo(n) ==
    IF n = 0 THEN {<<>>}
    ELSE LET shorter == StrUpTo(n - 1)
         IN  shorter \cup {Append(s, c) : s \in {t \in shorter : Len(t) = n - 1}, c \in Chars}

Queries == StrUpTo(MaxQueryLen)

\* str.lower()
LowerChar(c) == IF c = "A" THEN "a" ELSE c
Lower(s) == [i \in DOMAIN s |-> LowerChar(s[i])]

\* Mutant: a guard "if query and query in name" that rejects the empty needle.
ContainsNonEmpty(needle, hay) ==
    /\ needle # <<>>
    /\ \E i \in 0..(Len(hay) - Len(needle)) :
           SubSeq(hay, i + 1, i + Len(needle)) = needle

\* needle in hay
Contains(needle, hay) ==
    \E i \in 0..(Len(hay) - Len(needle)) :
        SubSeq(hay, i + 1, i + Len(needle)) = needle

\* s[:n]
Take(s, n) == SubSeq(s, 1, IF Len(s) < n THEN Len(s) ELSE n)

RECURSIVE Flatten(_)
Flatten(ss) == IF ss = <<>> THEN <<>> ELSE Head(ss) \o Flatten(Tail(ss))

Range(s) == {s[i] : i \in DOMAIN s}

\* hash(str) under the process's hash seed: any total order of the strings.
CharCode(c) ==
    CASE c = "a" -> 1 [] c = "b" -> 2 [] c = "A" -> 3 [] OTHER -> 4
RECURSIVE StrCode(_)
StrCode(s) == IF s = <<>> THEN 0 ELSE CharCode(Head(s)) + 5 * StrCode(Tail(s))
HashSeeds == {0, 1}
HashBefore(seed, s, t) ==
    IF seed = 0 THEN StrCode(s) < StrCode(t) ELSE StrCode(s) > StrCode(t)

\* --------------------------------------------------------------- resources
Kinds == {"container", "image", "network", "volume"}

\* A resource as the SDK hands it out: .id, .name, .tags, .status.
\* A volume's key is its name; an image has tags and no name.
NoRes == [id |-> <<>>, name |-> <<>>, tags |-> <<>>, status |-> "none"]

\* Ids are lower-case hexadecimal, and no id equals a name or a tag.
ContainerPool ==
    { [id |-> <<"a", "a">>, name |-> <<"a", "b">>,      tags |-> <<>>, status |-> "running"],
      [id |-> <<"b", "b">>, name |-> <<"A", "b", "a">>, tags |-> <<>>, status |-> "exited"],
      [id |-> <<"b", "a">>, name |-> <<"A">>,           tags |-> <<>>, status |-> "running"] }

NetworkPool ==
    { [id |-> <<"a", "a">>, name |-> <<"a", "b">>, tags |-> <<>>, status |-> "net"],
      [id |-> <<"b", "b">>, name |-> <<"A", "b">>, tags |-> <<>>, status |-> "net"],
      [id |-> <<"b", "a">>, name |-> <<"b">>,      tags |-> <<>>, status |-> "net"] }

VolumePool ==
    { [id |-> <<"a", "b">>,      name |-> <<"a", "b">>,      tags |-> <<>>, status |-> "vol"],
      [id |-> <<"A", "b", "a">>, name |-> <<"A", "b", "a">>, tags |-> <<>>, status |-> "vol"],
      [id |-> <<"b">>,           name |-> <<"b">>,           tags |-> <<>>, status |-> "vol"] }

\* status "intermediate": an image that images.list(all=False) leaves out.
ImagePool ==
    { [id |-> <<"a", "a">>, name |-> <<>>, status |-> "top",
       tags |-> << <<"a">>, <<"a", "A">>, <<"A", "b">> >>],
      [id |-> <<"b", "b">>, name |-> <<>>, status |-> "top",
       tags |-> << <<"b">>, <<"b", "A">>, <<"A", "A">> >>],
      [id |-> <<"b", "a">>, name |-> <<>>, status |-> "intermediate", tags |-> <<>>],
      [id |-> <<"a", "b">>, name |-> <<>>, status |-> "top", tags |-> << <<"A">> >>] }

Pool(kind) ==
    CASE kind = "container" -> ContainerPool
      [] kind = "image"     -> ImagePool
      [] kind = "network"   -> NetworkPool
      [] kind = "volume"    -> VolumePool

\* ------------------------------------------------- the runtime's two reads
\* client.<kind>s.get(identifier): the resource whose key, else whose canonical
\* name (for an image: one of its tags), equals the identifier verbatim.
GetByExactKey(kind, q, dir) ==
    LET byId   == {i \in DOMAIN dir : dir[i].id = q}
        byName == {i \in DOMAIN dir :
                      IF kind = "image" THEN q \in Range(dir[i].tags)
                                        ELSE dir[i].name = q}
    IN  IF byId # {} THEN dir[CHOOSE i \in byId : TRUE]
        ELSE IF byName # {} THEN dir[CHOOSE i \in byName : TRUE]
        ELSE NoRes

\* client.<kind>s.list(): every resource, in the runtime's order; for images
\* list(all=False) leaves the intermediate ones out.
IsShown(r, all) == all \/ r.status # "intermediate"
ListAll(dir, all) == SelectSeq(dir, LAMBDA r : IsShown(r, all))

\* --------------------------------------------------------- resolver results
\* What a _find_* call ends in: the resource it returns, or the exception it
\* raises.  Ambiguous and NotFound are both ValueError; names is the list the
\* message joins with ", " (the matches, or the "Did you mean" suggestions);
\* Error is an exception of the Docker client, err its class.
NoResult == [type |-> "none", cand |-> NoRes, names |-> <<>>, err |-> "none"]
Resolved(r) == [type |-> "Resolved", cand |-> r, names |-> <<>>, err |-> "none"]
Ambiguous(ns) == [type |-> "Ambiguous", cand |-> NoRes, names |-> ns, err |-> "ValueError"]
NotFound(ns) == [type |-> "NotFound", cand |-> NoRes, names |-> ns, err |-> "ValueError"]
Error(e) == [type |-> "Error", cand |-> NoRes, names |-> <<>>, err |-> e]

\* similar[:3]
SuggestionCap == 3
\* list(set(tags_list))[:5]
TagLimit == 5

\* list(set(xs)): the distinct elements, in the order of their hashes.
RECURSIVE ListOfSet(_, _)
ListOfSet(seed, S) ==
    IF S = {} THEN <<>>
    ELSE LET m == CHOOSE x \in S : \A y \in S \ {x} : HashBefore(seed, x, y)
         IN  <<m>> \o ListOfSet(seed, S \ {m})

NamesOf(rs) == [i \in DOMAIN rs |-> rs[i].name]

\* Mutant: the first match is taken as the best guess.
DecideFirstMatch(matching, similar) ==
    IF Len(matching) >= 1 THEN Resolved(matching[1])
    ELSE NotFound(Take(similar, SuggestionCap))

\* The three-way decision shared by the name-keyed resolvers.
Decide(matching, similar) ==
    IF Len(matching) = 1 THEN Resolved(matching[1])
    ELSE IF Len(matching) > 1 THEN Ambiguous(NamesOf(matching))
    ELSE NotFound(Take(similar, SuggestionCap))

\* Mutant: the container's id is not compared.
ContainerMatchesNameOnly(q, c) == Contains(Lower(q), Lower(c.name))

\* Mutant: the partial match compares the identifier as typed.
ContainerMatchesAsTyped(q, c) == Contains(q, c.name) \/ Contains(q, c.id)

\* ContainerTools._find_container, after containers.get raised NotFound.
ContainerMatches(q, c) ==
    Contains(Lower(q), Lower(c.name)) \/ Contains(Lower(q), Lower(c.id))
\* Mutant: every name is suggested.
SimilarNamesUnfiltered(q, all) == NamesOf(all)

SimilarNames(q, all) ==
    SelectSeq(NamesOf(all), LAMBDA name : Contains(Lower(q), Lower(name)))
FindContainerIn(q, all_containers) ==
    Decide(SelectSeq(all_containers, LAMBDA c : ContainerMatches(q, c)),
           SimilarNames(q, all_containers))

\* NetworkTools._find_network, after networks.get raised NotFound.
NetworkMatches(q, n) ==
    Contains(Lower(q), Lower(n.name)) \/ Contains(Lower(q), Lower(n.id))
FindNetworkIn(q, all_networks) ==
    Decide(SelectSeq(all_networks, LAMBDA n : NetworkMatches(q, n)),
           SimilarNames(q, all_networks))

\* VolumeTools._find_volume, after volumes.get raised NotFound.
VolumeMatches(q, v) == Contains(Lower(q), Lower(v.name))
FindVolumeIn(q, all_volumes) ==
    Decide(SelectSeq(all_volumes, LAMBDA v : VolumeMatches(q, v)),
           SimilarNames(q, all_volumes))

\* Mutant: an image is appended for its id and for each matching tag (no
\* continue, no break).
ImageMatchPerField(q, img) ==
    (IF Contains(Lower(q), Lower(img.id)) THEN <<img>> ELSE <<>>)
        \o Flatten([i \in DOMAIN img.tags |->
                       IF Contains(Lower(q), Lower(img.tags[i])) THEN <<img>> ELSE <<>>])

\* ImageTools._find_image, after images.get raised NotFound.
\* The loop appends an image once: on its id (continue) or on its first
\* matching tag (break).
ImageMatch(q, img) ==
    IF Contains(Lower(q), Lower(img.id)) THEN <<img>>
    ELSE IF \E i \in DOMAIN img.tags : Contains(Lower(q), Lower(img.tags[i])) THEN <<img>>
    ELSE <<>>
\* Mutant: an untagged image has no entry.
TagsOnly(img) == img.tags

TagsOrNone(img) == IF img.tags # <<>> THEN img.tags ELSE <<NoneTag>>
\* Mutant: the order of the set differs from one call to the next.
UniqueTagsPerCall(seed, matching) ==
    Take(ListOfSet(IF prev.of = "call" THEN 1 - seed ELSE seed,
                   Range(Flatten([i \in DOMAIN matching |-> TagsOrNone(matching[i])]))),
         TagLimit)

UniqueTags(seed, matching) ==
    Take(ListOfSet(seed, Range(Flatten([i \in DOMAIN matching |-> TagsOrNone(matching[i])]))),
         TagLimit)
SimilarTags(q, all_images) ==
    SelectSeq(Flatten([i \in DOMAIN all_images |-> all_images[i].tags]),
              LAMBDA tag : Contains(Lower(q), Lower(tag)))
FindImageIn(q, all_images, seed) ==
    LET matching == Flatten([i \in DOMAIN all_images |-> ImageMatch(q, all_images[i])])
    IN  IF Len(matching) = 1 THEN Resolved(matching[1])
        ELSE IF Len(matching) > 1 THEN Ambiguous(UniqueTags(seed, matching))
        ELSE NotFound(Take(SimilarTags(q, all_images), SuggestionCap))

\* The partial-match fallback of the resolver of a kind.
Fallback(kind, q, all, seed) ==
    CASE kind = "container" -> FindContainerIn(q, all)
      [] kind = "image"     -> FindImageIn(q, all, seed)
      [] kind = "network"   -> FindNetworkIn(q, all)
      [] kind = "volume"    -> FindVolumeIn(q, all)

\* Mutant: the resolver goes straight to the partial match.
DirectLookupSkipped(kind, q, dir) == NoRes

\* Mutant: the resolver keeps the resource it found on the tool object,
\* where a concurrent call finds it.
DirectLookupShared(kind, q, dir) ==
    IF parked.call.res.type = "Resolved" THEN parked.call.res.cand
    ELSE GetByExactKey(kind, q, dir)

\* Mutant: the resolver remembers the resource of its last call.
DirectLookupRemembered(kind, q, dir) ==
    IF prev.res.type = "Resolved" THEN prev.res.cand ELSE GetByExactKey(kind, q, dir)

\* The first statement of every resolver: return self.client.<kind>s.get(identifier).
DirectLookup(kind, q, dir) == GetByExactKey(kind, q, dir)

\* ------------------------------------------------------ exceptions, results
\* docker.errors: DockerException > APIError > NotFound > ImageNotFound.
IsNotFound(e) == e \in {"NotFound", "ImageNotFound"}
IsAPIError(e) == e \in {"APIError", "NotFound", "ImageNotFound"}
\* What a get or a list raises when the runtime cannot be reached or answers
\* with a server error (no except clause tells it from a plain DockerException).
CommErrors == {"APIError"}

\* What a public operation ends in: the record it returns (key, status) or
\* the exception it raises (kind), with the names its message lists.
NoOut == [kind |-> "none", text |-> "none", key |-> <<>>, status |-> "none", names |-> <<>>]
Record(text, r, status) ==
    [kind |-> "return", text |-> text, key |-> r.id, status |-> status, names |-> <<>>]
Raise(kind, text, ns) ==
    [kind |-> kind, text |-> text, key |-> <<>>, status |-> "none", names |-> ns]

Tools == {"ContainerTools", "ImageTools", "NetworkTools", "VolumeTools"}

KindOfTool(t) ==
    CASE t = "ContainerTools" -> "container"
      [] t = "ImageTools"     -> "image"
      [] t = "NetworkTools"   -> "network"
      [] t = "VolumeTools"    -> "volume"

\* The public operations that take an identifier.
OpsOf(t) ==
    CASE t = "ContainerTools" -> {"get_container_info", "start_container", "stop_container",
                                  "remove_container", "exec_in_container"}
      [] t = "ImageTools"     -> {"get_image_info", "remove_image"}
      [] t = "NetworkTools"   -> {"get_network_info", "remove_network"}
      [] t = "VolumeTools"    -> {"get_volume_info", "remove_volume", "backup_volume"}

InfoOps == {"get_container_info", "get_image_info", "get_network_info", "get_volume_info"}

\* Mutant: every exception of the client is reported as "not found".
HandleErrorAsNotFound(op, e) == Raise("ValueError", "not found", <<>>)

\* The except clauses of a public operation, applied to an exception of the
\* Docker client: remove_image turns NotFound into ValueError, backup_volume
\* turns ImageNotFound into ValueError, everything else becomes RuntimeError.
HandleError(op, e) ==
    IF op = "remove_image" /\ IsNotFound(e) THEN Raise("ValueError", "not found", <<>>)
    ELSE IF op = "backup_volume" /\ e = "ImageNotFound"
        THEN Raise("ValueError", "image not found", <<>>)
    ELSE Raise("RuntimeError", e, <<>>)

\* Mutant: "except Exception as e: raise RuntimeError(...)" comes first.
PropagateAsRuntimeError(op, res) ==
    Raise("RuntimeError", IF res.type = "Error" THEN res.err ELSE res.type, res.names)

\* The outcome of a public operation whose resolver raised: ValueError goes
\* through as it is ("except ValueError: raise"), the rest by HandleError.
Propagate(op, res) ==
    IF res.type \in {"Ambiguous", "NotFound"} THEN Raise("ValueError", res.type, res.names)
    ELSE HandleError(op, res.err)

\* Mutant: "except Exception:".
FallsBackOnAny(e) == TRUE

\* except docker.errors.NotFound: the one exception of the exact lookup that
\* starts the partial-match fallback (ImageNotFound is a NotFound).
FallsBack(e) == IsNotFound(e)

\* --------------------------------- compose: filesystem, environment, paths
\* COMPOSE_FILES, in the order _has_compose_file tries them.
COMPOSE_FILES ==
    <<"docker-compose.yml", "docker-compose.yaml", "compose.yml", "compose.yaml">>
\* Mutant: the keys in another order.
EnvKeysWorkspaceFirst == <<"WORKSPACE_ROOT", "MCP_PROJECT_DIR", "CURSOR_WORKSPACE_ROOT">>

\* The keys _find_project_dir reads from os.environ, in its order.
EnvKeys == <<"MCP_PROJECT_DIR", "WORKSPACE_ROOT", "CURSOR_WORKSPACE_ROOT">>

\* A directory is the sequence of names from the root to it: "/" is <<>>,
\* "/a/a" is <<"a", "a">>.  One name is enough for a chain of ancestors.
DirName == "a"
Root == <<>>
AllDirs == {[i \in 1..k |-> DirName] : k \in 0..MaxDepth}

\* A path string: absolute or relative, and its components.  The empty string
\* has no component and is not absolute.  None is Python's None.
None == [is |-> "None", abs |-> FALSE, segs |-> <<>>]
EmptyStr == [is |-> "str", abs |-> FALSE, segs |-> <<>>]
AbsStr(d) == [is |-> "str", abs |-> TRUE, segs |-> d]
RelStr(segs) == [is |-> "str", abs |-> FALSE, segs |-> segs]
\* Mutant: only None counts as no path.
IsNotNone(s) == s # None

\* `if s`: neither None nor "".
Truthy(s) == s # None /\ s # EmptyStr

\* What a caller passes as project_dir, and what a hint variable may hold.
ProjectDirArgs ==
    {None, EmptyStr, RelStr(<<DirName>>)} \cup {AbsStr(d) : d \in AllDirs}
HintValues == {None, AbsStr(Root), AbsStr(<<DirName>>), RelStr(<<DirName>>)}

\* dirs: the directories (with every directory its parent); files: the
\* compose files, each <<directory, name>>.
EmptyFs == [dirs |-> {Root}, files |-> {}]
NoEnv == [k \in Range(EnvKeys) |-> None]

\* os.path.abspath(s): a relative path is taken from the working directory.
AbsPath(s) == IF s.abs THEN s.segs ELSE cwd \o s.segs
\* os.path.isdir(s)
IsDir(s) == AbsPath(s) \in fs.dirs
\* os.path.isfile(os.path.join(directory, name))
IsFile(directory, name) == <<AbsPath(directory), name>> \in fs.files
\* Mutant: the walk goes from the working directory straight to the root.
DirnameIsRoot(d) == Root

\* os.path.dirname(path) of an absolute path: the root is its own parent.
Dirname(d) == IF d = Root THEN Root ELSE SubSeq(d, 1, Len(d) - 1)

\* Mutant: only the first name of COMPOSE_FILES is looked for.
HasFirstComposeFile(directory) == IsFile(directory, COMPOSE_FILES[1])

\* ComposeTools._has_compose_file
_has_compose_file(directory) ==
    \E i \in DOMAIN COMPOSE_FILES : IsFile(directory, COMPOSE_FILES[i])

\* What _find_project_dir ends in: the directory it returns, or the
\* ValueError it raises (InvalidPath: "Project directory not found",
\* NoMarkerFile: "No compose file ... in", NoProjectFound: "No compose
\* project found").
NoLoc == [type |-> "none", path |-> Root]
ProjectRoot(d) == [type |-> "ProjectRoot", path |-> d]
LocateError(t) == [type |-> t, path |-> Root]

\* subprocess.run timeouts: the probes of _detect_compose_cmd, the default of
\* _run_compose, compose_logs without follow.
ProbeTimeout == 5
DefaultTimeout == 120
LogsTimeout == 60

\* self._compose_cmd
ComposeV2 == <<"docker", "compose">>
ComposeV1 == <<"docker-compose">>

\* The ComposeTools object and its call.  cmd: self._compose_cmd.  pc: "new"
\* before __init__, "probe2" between its two probes, "failed" when it raised;
\* "idle" between calls; "explicit", "env", "walk" inside _find_project_dir;
\* "run" before _run_compose; "done" when the call has returned or raised.
\* key: the index in EnvKeys of the hint to read next; path: the local `path`
\* of the upward walk; consulted: the keys read; tested: the directories
\* _has_compose_file was called on; res: what _find_project_dir ended in;
\* runs: the subprocess.run calls made, with timeout and outcome.
NoComp ==
    [cmd |-> <<>>, pc |-> "new", op |-> "none", follow |-> FALSE, count |-> 0,
     arg |-> None, key |-> 0, path |-> Root, consulted |-> <<>>, tested |-> <<>>,
     res |-> NoLoc, runs |-> <<>>, out |-> NoOut]

\* ------------------------------------------------------- the initial state
\* rt: the calls this operation has made to the runtime, in order, each with
\* what the runtime answered: <<"get", "NotFound">>, <<"list", "ok">>, ...
\* container: the container_identifier of an operation of NetworkTools or
\* VolumeTools that takes one; found: what its lookup ended in.
NoCall ==
    [op |-> "none", arg |-> <<>>, pc |-> "idle", res |-> NoResult,
     rt |-> <<>>, out |-> NoOut, items |-> <<>>, stable |-> TRUE,
     container |-> <<>>, found |-> NoResult]
\* of: "call" after an operation with an identifier (res is its resolver's
\* result), "list" after a listing operation (items is what it returned),
\* "earlier" for the result of a call when the runtime has changed since,
\* "variant" when the call now in progress has the identifier of that call
\* in another letter case.  arg is the identifier of that call.
NoPrev == [of |-> "none", arg |-> <<>>, res |-> NoResult, items |-> <<>>]

\* One caller at a time: no second call.
NoParked == [call |-> NoCall, comp |-> NoComp]

toolKind == KindOfTool(tool)

Init ==
    /\ tool \in Tools
    /\ runtime = [k \in Kinds |-> <<>>]
    /\ hashSeed \in IF tool = "ImageTools" THEN HashSeeds ELSE {0}
    /\ call = NoCall
    /\ prev = NoPrev
    /\ fs = EmptyFs /\ env = NoEnv /\ cwd = Root /\ parked = NoParked /\ comp = NoComp

RemoveAt(seq, i) == SubSeq(seq, 1, i - 1) \o SubSeq(seq, i + 1, Len(seq))
InsertAt(seq, p, r) == SubSeq(seq, 1, p) \o <<r>> \o SubSeq(seq, p + 1, Len(seq))
Has(dir, id) == \E i \in DOMAIN dir : dir[i].id = id
IndexOf(dir, id) == CHOOSE i \in DOMAIN dir : dir[i].id = id

\* The runtime changed: the resource the call before resolved to is one of an
\* earlier runtime (nothing else of that call is kept for comparison).
Outdated(p) ==
    IF p.of \in {"call", "earlier"} /\ p.res.type = "Resolved"
    THEN [p EXCEPT !.of = "earlier"] ELSE NoPrev

\* The runtime changed: what the call in progress has read is not current
\* any more (before its first read, at "get", it has read nothing).
Changed(c) == IF c.pc \in {"idle", "get"} THEN c ELSE [c EXCEPT !.stable = FALSE]

\* ------------------------------------------------- other clients of Docker
\* They act between any two steps of an operation.  Once the operation has
\* ended ("done") its outcome is only kept for the caller: a change then is
\* the same change after Return.
ExtCreate ==
    \E r \in Pool(toolKind), p \in 0..Len(runtime[toolKind]) :
        /\ call.pc # "done"
        /\ Len(runtime[toolKind]) < MaxRes
        /\ ~Has(runtime[toolKind], r.id)
        /\ runtime' = [runtime EXCEPT ![toolKind] = InsertAt(@, p, r)]
        /\ call' = Changed(call)
        /\ prev' = Outdated(prev)
        /\ UNCHANGED <<tool, hashSeed>>
        /\ UNCHANGED cvars

ExtRemove ==
    \E i \in DOMAIN runtime[toolKind] :
        /\ call.pc # "done"
        /\ runtime' = [runtime EXCEPT ![toolKind] = RemoveAt(@, i)]
        /\ call' = Changed(call)
        /\ prev' = Outdated(prev)
        /\ UNCHANGED <<tool, hashSeed>>
        /\ UNCHANGED cvars

\* ------------------------------------------------------ listing operations
\* Mutant: the items carry the short id.
ItemShortId(k, r) ==
    CASE k = "volume" -> [id |-> <<>>, name |-> r.name, tags |-> <<>>]
      [] k = "image"  -> [id |-> Take(r.id, 1), name |-> <<>>,
                          tags |-> IF r.tags # <<>> THEN r.tags ELSE <<NoneTag>>]
      [] OTHER        -> [id |-> Take(r.id, 1), name |-> r.name, tags |-> <<>>]

\* An item of get_container_list / get_image_list / get_network_list /
\* get_volume_list: the fields that identify the resource.  A volume item has
\* a name and no id; an untagged image is listed with the tag "<none>".
Item(k, r) ==
    CASE k = "volume" -> [id |-> <<>>, name |-> r.name, tags |-> <<>>]
      [] k = "image"  -> [id |-> r.id, name |-> <<>>, tags |-> TagsOrNone(r)]
      [] OTHER        -> [id |-> r.id, name |-> r.name, tags |-> <<>>]
\* The primary key an item carries.
ItemKey(k, item) == IF k = "volume" THEN item.name ELSE item.id

ListOps == {"get_container_list", "get_image_list", "get_network_list", "get_volume_list"}
ListOpOf(t) ==
    CASE t = "ContainerTools" -> "get_container_list"
      [] t = "ImageTools"     -> "get_image_list"
      [] t = "NetworkTools"   -> "get_network_list"
      [] t = "VolumeTools"    -> "get_volume_list"
ItemsOf(k, rs) == [i \in DOMAIN rs |-> Item(k, rs[i])]

\* get_image_list(all_images) lists with all=all_images; the other three list
\* everything (containers.list(all=True), networks.list(), volumes.list()).
\* A DockerException of the list becomes RuntimeError.
GetList ==
    /\ call.pc = "idle"
    /\ \/ \E all_images \in BOOLEAN :
            /\ toolKind = "image" \/ all_images
            /\ call' = [NoCall EXCEPT
                          !.op = ListOpOf(tool), !.pc = "done", !.rt = <<<<"list", "ok">>>>,
                          !.items = ItemsOf(toolKind, ListAll(runtime[toolKind], all_images)),
                          !.out = [NoOut EXCEPT !.kind = "return", !.text = "list"]]
       \/ \E e \in CommErrors :
            call' = [NoCall EXCEPT !.op = ListOpOf(tool), !.pc = "done",
                                   !.rt = <<<<"list", e>>>>,
                                   !.out = Raise("RuntimeError", e, <<>>)]
    /\ UNCHANGED <<tool, runtime, hashSeed, prev>>
    /\ UNCHANGED cvars

\* ------------------------------------------------------ a public operation
\* Two identifiers a caller takes for the same: equal up to letter case.
SameLetters(q1, q2) ==
    /\ Len(q1) = Len(q2)
    /\ \A i \in DOMAIN q1 : q1[i] = q2[i] \/ {q1[i], q2[i]} = {"a", "A"}

\* The caller invokes an operation of the tool with an identifier.
Invoke ==
    \E op \in OpsOf(tool), q \in Queries :
        /\ call.pc = "idle"
        /\ call' = [NoCall EXCEPT !.op = op, !.arg = q, !.pc = "get"]
        /\ UNCHANGED <<tool, runtime, hashSeed, prev>>
        /\ UNCHANGED cvars

\* The caller invokes an operation right after another: with the identifier
\* of the call that just ended, with that identifier in another letter case,
\* or with the key of an item of the listing that just returned.  prev keeps
\* what that call returned, for comparison, when the runtime has not changed
\* since it began.
Reinvoke ==
    \E op \in OpsOf(tool), q \in Queries :
        /\ call.pc = "done"
        /\ IF call.op \in ListOps
           THEN \E i \in DOMAIN call.items : q = ItemKey(toolKind, call.items[i])
           ELSE SameLetters(q, call.arg)
        /\ call' = [NoCall EXCEPT !.op = op, !.arg = q, !.pc = "get"]
        /\ prev' = IF ~call.stable \/ call.res.type = "Error" THEN NoPrev
                   ELSE IF call.op \in ListOps
                   THEN [NoPrev EXCEPT !.of = "list", !.items = call.items]
                   ELSE [NoPrev EXCEPT !.of = IF q = call.arg THEN "call" ELSE "variant",
                                       !.arg = call.arg, !.res = call.res]
        /\ UNCHANGED <<tool, runtime, hashSeed>>
        /\ UNCHANGED cvars

\* The caller is done with the outcome.
Return ==
    /\ call.pc = "done"
    /\ call' = NoCall
    /\ prev' = NoPrev
    /\ UNCHANGED <<tool, runtime, hashSeed>>
    /\ UNCHANGED cvars

\* try: return self.client.<kind>s.get(identifier)
\* except docker.errors.NotFound: go on to the listing; any other exception
\* leaves the resolver and meets the operation's except clauses.
\* The runtime answers with the resource, with NotFound (ImageNotFound for an
\* image) when it has none, or fails.
ExactLookup ==
    /\ call.pc = "get"
    /\ LET r == DirectLookup(toolKind, call.arg, runtime[toolKind])
           missing == IF toolKind = "image" THEN "ImageNotFound" ELSE "NotFound"
       IN  \E e \in {IF r # NoRes THEN "ok" ELSE missing} \cup CommErrors :
             call' = IF e = "ok"
                     THEN [call EXCEPT !.rt = Append(@, <<"get", e>>),
                                       !.res = Resolved(r), !.pc = "act"]
                     ELSE IF FallsBack(e)
                     THEN [call EXCEPT !.rt = Append(@, <<"get", e>>), !.pc = "list"]
                     ELSE [call EXCEPT !.rt = Append(@, <<"get", e>>),
                                       !.res = Error(e), !.pc = "done",
                                       !.out = Propagate(call.op, Error(e))]
    /\ UNCHANGED <<tool, runtime, hashSeed, prev>>
    /\ UNCHANGED cvars

\* all = self.client.<kind>s.list(...), then the match, the suggestions and
\* the three-way decision, all on that one list.
Listing ==
    /\ call.pc = "list"
    /\ \/ LET res == Fallback(toolKind, call.arg, ListAll(runtime[toolKind], TRUE), hashSeed)
          IN  call' = IF res.type = "Resolved"
                      THEN [call EXCEPT !.rt = Append(@, <<"list", "ok">>),
                                        !.res = res, !.pc = "act"]
                      ELSE [call EXCEPT !.rt = Append(@, <<"list", "ok">>),
                                        !.res = res, !.pc = "done",
                                        !.out = Propagate(call.op, res)]
       \/ \E e \in CommErrors :
            call' = [call EXCEPT !.rt = Append(@, <<"list", e>>),
                                 !.res = Error(e), !.pc = "done",
                                 !.out = Propagate(call.op, Error(e))]
    /\ UNCHANGED <<tool, runtime, hashSeed, prev>>
    /\ UNCHANGED cvars

\* ------------------------------------------- the operation on the handle
\* The handle is the resource as read by the resolver; the runtime may have
\* changed since.
Finish(out) == [call EXCEPT !.pc = "done", !.out = out]
Issue(fn, e, out) ==
    [call EXCEPT !.pc = "done", !.out = out, !.stable = FALSE,
                 !.rt = Append(@, <<fn, e>>)]
Live(id) == runtime[toolKind][IndexOf(runtime[toolKind], id)]
SetStatus(id, st) ==
    [runtime EXCEPT ![toolKind] = [@ EXCEPT ![IndexOf(@, id)].status = st]]
Without(id) ==
    [runtime EXCEPT ![toolKind] = RemoveAt(@, IndexOf(@, id))]

\* get_container_info, get_image_info, get_network_info, get_volume_info:
\* a record built from the handle's attributes.
GetInfo ==
    /\ call.pc = "act" /\ call.op \in InfoOps
    /\ call' = Finish(Record("info", call.res.cand, call.res.cand.status))
    /\ UNCHANGED <<tool, runtime, hashSeed, prev>>
    /\ UNCHANGED cvars

\* Mutant: start is issued whatever the status.
StartContainerUnchecked ==
    /\ call.pc = "act" /\ call.op = "start_container"
    /\ prev' = NoPrev
    /\ LET c == call.res.cand IN
       IF Has(runtime[toolKind], c.id)
       THEN /\ runtime' = SetStatus(c.id, "running")
            /\ call' = Issue("start", "ok", Record("started", c, "running"))
       ELSE /\ runtime' = runtime
            /\ call' = Issue("start", "NotFound", HandleError(call.op, "NotFound"))
    /\ UNCHANGED <<tool, hashSeed>>
    /\ UNCHANGED cvars

\* start_container
StartContainer ==
    /\ call.pc = "act" /\ call.op = "start_container"
    /\ LET c == call.res.cand IN
       IF c.status = "running"
       THEN /\ call' = Finish(Record("already running", c, "running"))
            /\ UNCHANGED <<runtime, prev>>
       ELSE /\ prev' = NoPrev
            /\ IF Has(runtime[toolKind], c.id)
               THEN /\ runtime' = SetStatus(c.id, "running")
                    /\ call' = Issue("start", "ok", Record("started", c, "running"))
               ELSE /\ runtime' = runtime
                    /\ call' = Issue("start", "NotFound", HandleError(call.op, "NotFound"))
    /\ UNCHANGED <<tool, hashSeed>>
    /\ UNCHANGED cvars

\* stop_container
StopContainer ==
    /\ call.pc = "act" /\ call.op = "stop_container"
    /\ LET c == call.res.cand IN
       IF c.status # "running"
       THEN /\ call' = Finish(Record("not running", c, c.status))
            /\ UNCHANGED <<runtime, prev>>
       ELSE /\ prev' = NoPrev
            /\ IF Has(runtime[toolKind], c.id)
               THEN /\ runtime' = SetStatus(c.id, "exited")
                    /\ call' = Issue("stop", "ok", Record("stopped", c, "exited"))
               ELSE /\ runtime' = runtime
                    /\ call' = Issue("stop", "NotFound", HandleError(call.op, "NotFound"))
    /\ UNCHANGED <<tool, hashSeed>>
    /\ UNCHANGED cvars

\* exec_in_container
ExecInContainer ==
    /\ call.pc = "act" /\ call.op = "exec_in_container"
    /\ LET c == call.res.cand IN
       IF c.status # "running"
       THEN call' = Finish(Raise("RuntimeError", "not running", <<>>))
       ELSE call' = IF Has(runtime[toolKind], c.id)
                    THEN [call EXCEPT !.pc = "done", !.rt = Append(@, <<"exec", "ok">>),
                                      !.out = Record("exec", c, c.status)]
                    ELSE [call EXCEPT !.pc = "done", !.rt = Append(@, <<"exec", "NotFound">>),
                                      !.out = HandleError(call.op, "NotFound")]
    /\ UNCHANGED <<tool, runtime, hashSeed, prev>>
    /\ UNCHANGED cvars

\* remove_container, remove_image, remove_network, remove_volume: the remove
\* call on the handle (for an image: client.images.remove(image.id)).
\* The runtime refuses to remove a running container without force.
Remove ==
    /\ call.pc = "act"
    /\ call.op \in {"remove_container", "remove_image", "remove_network", "remove_volume"}
    /\ prev' = NoPrev
    /\ \E force \in BOOLEAN :
         LET c == call.res.cand
             missing == IF toolKind = "image" THEN "ImageNotFound" ELSE "NotFound"
         IN
         IF ~Has(runtime[toolKind], c.id)
         THEN /\ runtime' = runtime
              /\ call' = Issue("remove", missing, HandleError(call.op, missing))
         ELSE IF Live(c.id).status = "running" /\ ~force
         THEN /\ runtime' = runtime
              /\ call' = Issue("remove", "APIError", HandleError(call.op, "APIError"))
         ELSE /\ runtime' = Without(c.id)
              /\ call' = Issue("remove", "ok", Record("removed", c, "removed"))
    /\ UNCHANGED <<tool, hashSeed>>
    /\ UNCHANGED cvars

\* backup_volume: containers.run of a temporary container that mounts the
\* volume; the backup image may be missing.
BackupVolume ==
    /\ call.pc = "act" /\ call.op = "backup_volume"
    /\ \E outcome \in {"ok", "ImageNotFound", "APIError"} :
         call' = [call EXCEPT !.pc = "done",
                              !.rt = Append(@, <<"run", outcome>>),
                              !.out = IF outcome = "ok"
                                      THEN Record("backed_up", call.res.cand, "backed_up")
                                      ELSE HandleError(call.op, outcome)]
    /\ UNCHANGED <<tool, runtime, hashSeed, prev>>
    /\ UNCHANGED cvars

Next ==
    \/ ExtCreate
    \/ ExtRemove
    \/ GetList
    \/ Invoke
    \/ Reinvoke
    \/ Return
    \/ ExactLookup
    \/ Listing
    \/ GetInfo
    \/ StartContainer
    \/ StopContainer
    \/ ExecInContainer
    \/ Remove
    \/ BackupVolume

Spec == Init /\ [][Next]_allvars

\* ================================================================= compose
\* ------------------------------------- the filesystem and the environment
\* Other processes and the user change them between two calls.
MkDir ==
    \E d \in fs.dirs :
        /\ comp.pc = "idle"
        /\ Len(d) < MaxDepth
        /\ Append(d, DirName) \notin fs.dirs
        /\ fs' = [fs EXCEPT !.dirs = @ \cup {Append(d, DirName)}]
        /\ UNCHANGED <<env, cwd, comp, parked, vars>>

Touch ==
    \E d \in fs.dirs, i \in DOMAIN COMPOSE_FILES :
        /\ comp.pc = "idle"
        /\ Cardinality(fs.files) < MaxMarkers
        /\ <<d, COMPOSE_FILES[i]>> \notin fs.files
        /\ fs' = [fs EXCEPT !.files = @ \cup {<<d, COMPOSE_FILES[i]>>}]
        /\ UNCHANGED <<env, cwd, comp, parked, vars>>

Unlink ==
    \E f \in fs.files :
        /\ comp.pc = "idle"
        /\ fs' = [fs EXCEPT !.files = @ \ {f}]
        /\ UNCHANGED <<env, cwd, comp, parked, vars>>

SetEnv ==
    \E k \in Range(EnvKeys), v \in HintValues :
        /\ comp.pc = "idle"
        /\ env[k] # v
        /\ env' = [env EXCEPT ![k] = v]
        /\ UNCHANGED <<fs, cwd, comp, parked, vars>>

Chdir ==
    \E d \in fs.dirs :
        /\ comp.pc = "idle"
        /\ d # cwd
        /\ cwd' = d
        /\ UNCHANGED <<fs, env, comp, parked, vars>>

\* ------------------------------------------------------ _find_project_dir
\* A call begins: `if project_dir is not None and project_dir:` chooses the
\* explicit branch, anything else the hints and then the walk.
Begin(op, follow, count, project_dir) ==
    [NoComp EXCEPT !.cmd = comp.cmd, !.op = op, !.follow = follow, !.count = count,
                   !.arg = project_dir,
                   !.pc = IF Truthy(project_dir) THEN "explicit" ELSE "env",
                   !.key = 1]

\* _find_project_dir has returned d or raised: a call of the lookup alone
\* ends; a compose_* operation goes on with d, or ends with the ValueError.
Located(c, res) ==
    IF c.op = "_find_project_dir" \/ res.type # "ProjectRoot"
    THEN [c EXCEPT !.res = res, !.pc = "done",
                   !.out = IF res.type = "ProjectRoot"
                           THEN [NoOut EXCEPT !.kind = "return", !.text = "path"]
                           ELSE Raise("ValueError", res.type, <<>>)]
    ELSE [c EXCEPT !.res = res, !.pc = "run"]

\* _find_project_dir called for itself, with any project_dir.
FindProjectDir ==
    \E project_dir \in ProjectDirArgs :
        /\ comp.pc = "idle"
        /\ comp' = Begin("_find_project_dir", FALSE, 0, project_dir)
        /\ UNCHANGED <<fs, env, cwd, parked, vars>>

\* Mutant: the compose file is looked for before the directory is checked.
CheckExplicitMarkerFirst ==
    /\ comp.pc = "explicit"
    /\ LET path == AbsPath(comp.arg)
           c == [comp EXCEPT !.tested = Append(@, path)]
       IN  comp' = IF ~_has_compose_file(AbsStr(path))
                   THEN Located(c, LocateError("NoMarkerFile"))
                   ELSE IF ~IsDir(AbsStr(path))
                   THEN Located(c, LocateError("InvalidPath"))
                   ELSE Located(c, ProjectRoot(path))
    /\ UNCHANGED <<fs, env, cwd, parked, vars>>

\* Mutant: an explicit directory without a compose file starts the upward
\* search from it.
CheckExplicitFallsBack ==
    /\ comp.pc = "explicit"
    /\ LET path == AbsPath(comp.arg)
       IN  comp' = IF ~IsDir(AbsStr(path))
                   THEN Located(comp, LocateError("InvalidPath"))
                   ELSE [comp EXCEPT !.pc = "walk", !.path = path]
    /\ UNCHANGED <<fs, env, cwd, parked, vars>>

\* Lines 38-45: path = abspath(project_dir); not a directory: ValueError;
\* no compose file in it: ValueError; else return path.
CheckExplicit ==
    /\ comp.pc = "explicit"
    /\ LET path == AbsPath(comp.arg)
       IN  comp' = IF ~IsDir(AbsStr(path))
                   THEN Located(comp, LocateError("InvalidPath"))
                   ELSE IF ~_has_compose_file(AbsStr(path))
                   THEN Located([comp EXCEPT !.tested = Append(@, path)],
                                LocateError("NoMarkerFile"))
                   ELSE Located([comp EXCEPT !.tested = Append(@, path)],
                                ProjectRoot(path))
    /\ UNCHANGED <<fs, env, cwd, parked, vars>>

\* Mutant: the hint is returned when it is a directory.
HintQualifiesAsDir(path) == Truthy(path) /\ IsDir(path)

\* `path and os.path.isdir(path) and self._has_compose_file(path)`
HintQualifies(path) == Truthy(path) /\ IsDir(path) /\ _has_compose_file(path)

\* Lines 47-52, one turn of the for loop: the hint of the next key; after the
\* last key, path = cwd = os.getcwd().
CheckHint ==
    /\ comp.pc = "env"
    /\ LET env_key == EnvKeys[comp.key]
           path == env[env_key]
           c == [comp EXCEPT !.consulted = Append(@, env_key),
                             !.tested = IF Truthy(path) /\ IsDir(path)
                                        THEN Append(@, AbsPath(path)) ELSE @]
       IN  comp' = IF HintQualifies(path) THEN Located(c, ProjectRoot(AbsPath(path)))
                   ELSE IF comp.key < Len(EnvKeys) THEN [c EXCEPT !.key = @ + 1]
                   ELSE [c EXCEPT !.pc = "walk", !.path = cwd]
    /\ UNCHANGED <<fs, env, cwd, parked, vars>>

\* Mutant: the walk stops one directory below the root.
StopsBelowRoot(path) == Len(path) <= 1

\* `parent == path`, with parent = os.path.dirname(path): path is the root.
AtRoot(path) == Dirname(path) = path

\* Lines 53-62, one turn of the while loop.
WalkStep ==
    /\ comp.pc = "walk"
    /\ LET c == [comp EXCEPT !.tested = Append(@, comp.path)]
       IN  comp' = IF _has_compose_file(AbsStr(comp.path))
                   THEN Located(c, ProjectRoot(comp.path))
                   ELSE IF AtRoot(comp.path)
                   THEN Located(c, LocateError("NoProjectFound"))
                   ELSE [c EXCEPT !.path = Dirname(comp.path)]
    /\ UNCHANGED <<fs, env, cwd, parked, vars>>

\* The caller has the outcome.
ComposeReturn ==
    /\ comp.pc = "done"
    /\ comp' = [NoComp EXCEPT !.cmd = comp.cmd, !.pc = "idle"]
    /\ UNCHANGED <<fs, env, cwd, parked, vars>>

\* The lookup, over every filesystem, environment and working directory.
LocateInit ==
    /\ tool = "ComposeTools" /\ runtime = [k \in Kinds |-> <<>>] /\ hashSeed = 0
    /\ call = NoCall /\ prev = NoPrev
    /\ fs = EmptyFs /\ env = NoEnv /\ cwd = Root /\ parked = NoParked
    /\ comp = [NoComp EXCEPT !.cmd = ComposeV2, !.pc = "idle"]

LocateNext ==
    \/ MkDir
    \/ Touch
    \/ Unlink
    \/ SetEnv
    \/ Chdir
    \/ FindProjectDir
    \/ CheckExplicit
    \/ CheckHint
    \/ WalkStep
    \/ ComposeReturn

LocateSpec == LocateInit /\ [][LocateNext]_allvars

\* _find_project_dir is synchronous: once called, its statements run to its
\* return or raise.
LocateLive ==
    /\ LocateSpec
    /\ WF_allvars(CheckExplicit) /\ WF_allvars(CheckHint) /\ WF_allvars(WalkStep)

\* ------------------------------------------- the compose_* operations
\* timeout=: a number of seconds, or None.
Timeout(n) == [bounded |-> TRUE, secs |-> n]
NoTimeout == [bounded |-> FALSE, secs |-> 0]

\* How a subprocess.run ends: the exit status of the process (0 or not),
\* TimeoutExpired when a timeout was given, FileNotFoundError when the
\* executable is missing.
RunOutcomes(timeout) ==
    {"exit0", "exit1", "FileNotFoundError"}
        \cup IF timeout.bounded THEN {"TimeoutExpired"} ELSE {}
Ran(cmd, timeout, outcome) == [cmd |-> cmd, timeout |-> timeout, outcome |-> outcome]

\* _detect_compose_cmd, first probe: ["docker", "compose", "version"].
\* Exit status 0 returns ["docker", "compose"]; a non-zero status,
\* FileNotFoundError and TimeoutExpired all lead to the second probe.
DetectV2 ==
    /\ comp.pc = "new"
    /\ \E outcome \in RunOutcomes(Timeout(ProbeTimeout)) :
         LET c == [comp EXCEPT
                     !.runs = Append(@, Ran(ComposeV2 \o <<"version">>,
                                            Timeout(ProbeTimeout), outcome))]
         IN  comp' = IF outcome = "exit0"
                     THEN [c EXCEPT !.cmd = ComposeV2, !.pc = "idle"]
                     ELSE [c EXCEPT !.pc = "probe2"]
    /\ UNCHANGED <<fs, env, cwd, parked, vars>>

\* _detect_compose_cmd, second probe: ["docker-compose", "version"]; when it
\* does not exit with 0 either, RuntimeError("Docker Compose not found...").
DetectV1 ==
    /\ comp.pc = "probe2"
    /\ \E outcome \in RunOutcomes(Timeout(ProbeTimeout)) :
         LET c == [comp EXCEPT
                     !.runs = Append(@, Ran(ComposeV1 \o <<"version">>,
                                            Timeout(ProbeTimeout), outcome))]
         IN  comp' = IF outcome = "exit0"
                     THEN [c EXCEPT !.cmd = ComposeV1, !.pc = "idle"]
                     ELSE [c EXCEPT !.pc = "failed",
                                    !.out = Raise("RuntimeError", "ComposeNotFound", <<>>)]
    /\ UNCHANGED <<fs, env, cwd, parked, vars>>

ComposeOps ==
    {"compose_up", "compose_down", "compose_ps", "compose_logs", "compose_scale"}

\* A compose_* operation is called; its first statement is
\* project_dir = self._find_project_dir(project_dir).  follow is a parameter
\* of compose_logs, count of compose_scale.
ComposeCall ==
    \E op \in ComposeOps, follow \in BOOLEAN, count \in {-1, 0, 1},
       project_dir \in ProjectDirArgs :
        /\ comp.pc = "idle"
        /\ follow => op = "compose_logs"
        /\ count # 0 <=> op = "compose_scale"
        /\ comp' = Begin(op, follow, count, project_dir)
        /\ UNCHANGED <<fs, env, cwd, parked, vars>>

\* The args of the command, as far as the operation fixes them.
ArgsOf(op, follow) ==
    CASE op = "compose_up"    -> <<"up", "-d">>
      [] op = "compose_down"  -> <<"down">>
      [] op = "compose_ps"    -> <<"ps", "--format", "json">>
      [] op = "compose_logs"  -> IF follow THEN <<"logs", "--tail", "--follow">>
                                 ELSE <<"logs", "--tail">>
      [] op = "compose_scale" -> <<"up", "-d", "--scale">>

\* Mutant: compose_logs always passes its 60 seconds.
TimeoutOfIgnoresFollow(op, follow) ==
    IF op = "compose_logs" THEN Timeout(LogsTimeout) ELSE Timeout(DefaultTimeout)

\* The timeout _run_compose gets: compose_logs passes
\* `None if follow else 60`, the others leave the default.
TimeoutOf(op, follow) ==
    IF op = "compose_logs"
    THEN IF follow THEN NoTimeout ELSE Timeout(LogsTimeout)
    ELSE Timeout(DefaultTimeout)

\* Mutant: every exception of subprocess.run gets the same message.
RunResultOneMessage(op, follow, outcome) ==
    CASE outcome \in {"TimeoutExpired", "FileNotFoundError"} ->
            Raise("RuntimeError", "ExecutableNotFound", <<>>)
      [] outcome = "exit1" /\ ~(op = "compose_logs" /\ follow) ->
            Raise("RuntimeError", "ExitNonZero", <<>>)
      [] OTHER -> [NoOut EXCEPT !.kind = "return", !.text = op]

\* What the operation makes of the end of its command: _run_compose turns
\* TimeoutExpired into RuntimeError("Compose command timed out") and
\* FileNotFoundError into RuntimeError("Docker or Compose executable not
\* found."); the operation turns a non-zero exit status into
\* RuntimeError("compose ... failed (exit N)"), except compose_logs with
\* follow; otherwise it returns its record.
RunResult(op, follow, outcome) ==
    CASE outcome = "TimeoutExpired" -> Raise("RuntimeError", "TimedOut", <<>>)
      [] outcome = "FileNotFoundError" -> Raise("RuntimeError", "ExecutableNotFound", <<>>)
      [] outcome = "exit1" /\ ~(op = "compose_logs" /\ follow) ->
            Raise("RuntimeError", "ExitNonZero", <<>>)
      [] OTHER -> [NoOut EXCEPT !.kind = "return", !.text = op]

\* The rest of the operation, project_dir found: compose_scale checks count,
\* then _run_compose checks that project_dir is a directory and runs the
\* command, once.
RunCompose ==
    /\ comp.pc = "run"
    /\ IF comp.op = "compose_scale" /\ comp.count < 0
       THEN comp' = [comp EXCEPT !.pc = "done",
                                 !.out = Raise("ValueError", "ScaleCount", <<>>)]
       ELSE IF ~IsDir(AbsStr(comp.res.path))
       THEN comp' = [comp EXCEPT !.pc = "done",
                                 !.out = Raise("ValueError", "InvalidPath", <<>>)]
       ELSE LET timeout == TimeoutOf(comp.op, comp.follow)
            IN  \E outcome \in RunOutcomes(timeout) :
                  comp' = [comp EXCEPT
                             !.pc = "done",
                             !.runs = Append(@, Ran(comp.cmd \o ArgsOf(comp.op, comp.follow),
                                                    timeout, outcome)),
                             !.out = RunResult(comp.op, comp.follow, outcome)]
    /\ UNCHANGED <<fs, env, cwd, parked, vars>>

\* A ComposeTools object from its construction on, in a filesystem where
\* compose files come and go in the root directory.
ComposeInit ==
    /\ tool = "ComposeTools" /\ runtime = [k \in Kinds |-> <<>>] /\ hashSeed = 0
    /\ call = NoCall /\ prev = NoPrev
    /\ fs = EmptyFs /\ env = NoEnv /\ cwd = Root /\ parked = NoParked
    /\ comp = NoComp

ComposeNext ==
    \/ DetectV2
    \/ DetectV1
    \/ Touch
    \/ Unlink
    \/ ComposeCall
    \/ CheckExplicit
    \/ CheckHint
    \/ WalkStep
    \/ RunCompose
    \/ ComposeReturn

ComposeSpec == ComposeInit /\ [][ComposeNext]_allvars

\* ------------------------------ a container named to NetworkTools, VolumeTools
\* connect_container and disconnect_container of NetworkTools take a network
\* and a container identifier; get_volumes_by_container of VolumeTools takes
\* a container identifier.
ContainerOps(t) ==
    CASE t = "NetworkTools" -> {"connect_container", "disconnect_container"}
      [] t = "VolumeTools"  -> {"get_volumes_by_container"}

\* Other clients create and remove containers.
ContainerCreated ==
    \E r \in ContainerPool, p \in 0..Len(runtime["container"]) :
        /\ call.pc # "done"
        /\ Len(runtime["container"]) < MaxRes
        /\ ~Has(runtime["container"], r.id)
        /\ runtime' = [runtime EXCEPT !["container"] = InsertAt(@, p, r)]
        /\ call' = Changed(call)
        /\ UNCHANGED <<tool, hashSeed, prev>>
        /\ UNCHANGED cvars

ContainerRemoved ==
    \E i \in DOMAIN runtime["container"] :
        /\ call.pc # "done"
        /\ runtime' = [runtime EXCEPT !["container"] = RemoveAt(@, i)]
        /\ call' = Changed(call)
        /\ UNCHANGED <<tool, hashSeed, prev>>
        /\ UNCHANGED cvars

\* The caller invokes one of these operations.  The network identifier of
\* connect_container / disconnect_container goes to _find_network first
\* (ExactLookup, Listing).
InvokeWithContainer ==
    \E op \in ContainerOps(tool), network_identifier \in Queries,
       container_identifier \in Queries :
        /\ call.pc = "idle"
        /\ tool = "VolumeTools" => network_identifier = <<>>
        /\ call' = [NoCall EXCEPT !.op = op, !.arg = network_identifier,
                                  !.container = container_identifier,
                                  !.pc = IF tool = "VolumeTools" THEN "cget" ELSE "get"]
        /\ UNCHANGED <<tool, runtime, hashSeed, prev>>
        /\ UNCHANGED cvars

\* Mutant: the container goes through a resolver with the partial match.
GetContainerPartial(q, dir) ==
    IF GetByExactKey("container", q, dir) # NoRes
    THEN GetByExactKey("container", q, dir)
    ELSE FindContainerIn(q, ListAll(dir, TRUE)).cand

\* self.client.containers.get(container_identifier) in NetworkTools.
GetContainer(q, dir) == GetByExactKey("container", q, dir)

\* connect_container, disconnect_container, the network found:
\* container = self.client.containers.get(container_identifier);
\* except docker.errors.NotFound: ValueError("Container ... not found");
\* any other exception of the get becomes RuntimeError.
FindContainerOfNetworkOp ==
    /\ call.pc = "act" /\ call.op \in ContainerOps("NetworkTools")
    /\ LET r == GetContainer(call.container, runtime["container"])
       IN  \E e \in {IF r # NoRes THEN "ok" ELSE "NotFound"} \cup CommErrors :
             call' = IF e = "ok"
                     THEN [call EXCEPT !.rt = Append(@, <<"containers.get", e>>),
                                       !.found = Resolved(r), !.pc = "connect"]
                     ELSE IF IsNotFound(e)
                     THEN [call EXCEPT !.rt = Append(@, <<"containers.get", e>>),
                                       !.found = NotFound(<<>>), !.pc = "done",
                                       !.out = Raise("ValueError", "NotFound", <<>>)]
                     ELSE [call EXCEPT !.rt = Append(@, <<"containers.get", e>>),
                                       !.found = Error(e), !.pc = "done",
                                       !.out = Raise("RuntimeError", e, <<>>)]
    /\ UNCHANGED <<tool, runtime, hashSeed, prev>>
    /\ UNCHANGED cvars

\* network.connect(container) / network.disconnect(container): the runtime
\* does it, refuses because the container is already connected / is not
\* connected (ValueError), or fails otherwise (RuntimeError).
Connect ==
    /\ call.pc = "connect"
    /\ \E outcome \in {"ok", "Refused", "APIError"} :
         call' = [call EXCEPT
                    !.pc = "done",
                    !.rt = Append(@, <<"connect", outcome>>),
                    !.out = CASE outcome = "ok" ->
                                    Record(call.op, call.found.cand, "connected")
                              [] outcome = "Refused" -> Raise("ValueError", "Refused", <<>>)
                              [] OTHER -> Raise("RuntimeError", outcome, <<>>)]
    /\ UNCHANGED <<tool, runtime, hashSeed, prev>>
    /\ UNCHANGED cvars

\* Mutant: the container's id is not compared.
VolContainerMatchesNameOnly(q, c) == Contains(Lower(q), Lower(c.name))

\* VolumeTools._find_container, after containers.get raised NotFound.
VolContainerMatches(q, c) ==
    Contains(Lower(q), Lower(c.name)) \/ Contains(Lower(q), Lower(c.id))
VolFindContainerIn(q, all_containers) ==
    LET matching == SelectSeq(all_containers, LAMBDA c : VolContainerMatches(q, c))
    IN  IF Len(matching) = 1 THEN Resolved(matching[1])
        ELSE IF Len(matching) > 1 THEN Ambiguous(NamesOf(matching))
        ELSE NotFound(<<>>)

\* VolumeTools._find_container: return self.client.containers.get(...);
\* except docker.errors.NotFound: go on to the listing.
VolExactLookup ==
    /\ call.pc = "cget"
    /\ LET r == GetByExactKey("container", call.container, runtime["container"])
       IN  \E e \in {IF r # NoRes THEN "ok" ELSE "NotFound"} \cup CommErrors :
             call' = IF e = "ok"
                     THEN [call EXCEPT !.rt = Append(@, <<"containers.get", e>>),
                                       !.found = Resolved(r), !.pc = "mounts"]
                     ELSE IF IsNotFound(e)
                     THEN [call EXCEPT !.rt = Append(@, <<"containers.get", e>>),
                                       !.pc = "clist"]
                     ELSE [call EXCEPT !.rt = Append(@, <<"containers.get", e>>),
                                       !.found = Error(e), !.pc = "done",
                                       !.out = Raise("RuntimeError", e, <<>>)]
    /\ UNCHANGED <<tool, runtime, hashSeed, prev>>
    /\ UNCHANGED cvars

\* all_containers = self.client.containers.list(all=True), the match and the
\* three-way decision.
VolListing ==
    /\ call.pc = "clist"
    /\ \/ LET res == VolFindContainerIn(call.container,
                                        ListAll(runtime["container"], TRUE))
          IN  call' = IF res.type = "Resolved"
                      THEN [call EXCEPT !.rt = Append(@, <<"containers.list", "ok">>),
                                        !.found = res, !.pc = "mounts"]
                      ELSE [call EXCEPT !.rt = Append(@, <<"containers.list", "ok">>),
                                        !.found = res, !.pc = "done",
                                        !.out = Raise("ValueError", res.type, res.names)]
       \/ \E e \in CommErrors :
            call' = [call EXCEPT !.rt = Append(@, <<"containers.list", e>>),
                                 !.found = Error(e), !.pc = "done",
                                 !.out = Raise("RuntimeError", e, <<>>)]
    /\ UNCHANGED <<tool, runtime, hashSeed, prev>>
    /\ UNCHANGED cvars

\* get_volumes_by_container, the container found: a record of its mounts.
GetMounts ==
    /\ call.pc = "mounts"
    /\ call' = [call EXCEPT !.pc = "done",
                            !.out = Record("mounts", call.found.cand,
                                           call.found.cand.status)]
    /\ UNCHANGED <<tool, runtime, hashSeed, prev>>
    /\ UNCHANGED cvars

ContainerRefInit ==
    /\ tool \in {"NetworkTools", "VolumeTools"}
    /\ runtime = [k \in Kinds |-> <<>>]
    /\ hashSeed = 0
    /\ call = NoCall
    /\ prev = NoPrev
    /\ fs = EmptyFs /\ env = NoEnv /\ cwd = Root /\ parked = NoParked /\ comp = NoComp

ContainerRefNext ==
    \/ ContainerCreated
    \/ ContainerRemoved
    \/ tool = "NetworkTools" /\ ExtCreate
    \/ tool = "NetworkTools" /\ ExtRemove
    \/ InvokeWithContainer
    \/ ExactLookup
    \/ Listing
    \/ FindContainerOfNetworkOp
    \/ Connect
    \/ VolExactLookup
    \/ VolListing
    \/ GetMounts
    \/ Return

ContainerRefSpec == ContainerRefInit /\ [][ContainerRefNext]_allvars

\* --------------------------------------------------- any of the five tools
\* A behaviour of any one tool object: a Docker tool and its operations, or
\* ComposeTools and _find_project_dir.
ToolsInit == Init \/ LocateInit

ToolsNext ==
    \/ tool \in Tools /\ Next
    \/ tool = "ComposeTools" /\ LocateNext

ToolsSpec == ToolsInit /\ [][ToolsNext]_allvars

\* ------------------------------------------------------- concurrent callers
\* Two callers use one tool object at the same time.  The parameters and the
\* locals of a method belong to the call: call and comp hold those of the
\* caller that runs, parked those of the other caller, and the scheduler
\* switches between the two at any step.
Switch ==
    /\ parked' = [call |-> call, comp |-> comp]
    /\ call' = parked.call
    /\ comp' = parked.comp
    /\ UNCHANGED <<tool, runtime, hashSeed, prev, fs, env, cwd>>

\* Neither caller has a call in progress.
Quiet ==
    /\ call.pc = "idle" /\ parked.call.pc = "idle"
    /\ comp.pc \in {"new", "idle"} /\ parked.comp.pc \in {"new", "idle"}

\* A caller invokes an operation that only reads the runtime.
InvokeInfo == Invoke /\ call'.op \in InfoOps

ConcurrentInit ==
    /\ tool \in Tools \cup {"ComposeTools"}
    /\ runtime = [k \in Kinds |-> <<>>]
    /\ hashSeed \in IF tool = "ImageTools" THEN HashSeeds ELSE {0}
    /\ call = NoCall
    /\ prev = NoPrev
    /\ fs = EmptyFs /\ env = NoEnv /\ cwd = Root
    /\ comp = IF tool = "ComposeTools"
              THEN [NoComp EXCEPT !.cmd = ComposeV2, !.pc = "idle"] ELSE NoComp
    /\ parked = [call |-> call, comp |-> comp]

\* The runtime, the filesystem and the working directory change while no
\* call is in progress.
ConcurrentNext ==
    \/ tool \in Tools /\ Quiet /\ ExtCreate
    \/ tool \in Tools /\ Quiet /\ ExtRemove
    \/ tool \in Tools /\ InvokeInfo
    \/ tool \in Tools /\ ExactLookup
    \/ tool \in Tools /\ Listing
    \/ tool \in Tools /\ GetInfo
    \/ tool \in Tools /\ Return
    \/ tool = "ComposeTools" /\ Quiet /\ MkDir
    \/ tool = "ComposeTools" /\ Quiet /\ Touch
    \/ tool = "ComposeTools" /\ Quiet /\ Unlink
    \/ tool = "ComposeTools" /\ Quiet /\ Chdir
    \/ tool = "ComposeTools" /\ FindProjectDir
    \/ tool = "ComposeTools" /\ CheckExplicit
    \/ tool = "ComposeTools" /\ CheckHint
    \/ tool = "ComposeTools" /\ WalkStep
    \/ tool = "ComposeTools" /\ ComposeReturn
    \/ Switch

ConcurrentSpec == ConcurrentInit /\ [][ConcurrentNext]_allvars

\* ==================================================================== claims
\* Vocabulary of the claims.  An operation "resolves" when it takes an
\* identifier; Sent(fn) counts its calls fn to the runtime; Unchanged says the
\* runtime is as the operation's first read found it, so that runtime[toolKind]
\* is what its get and its list saw.
Resolving == call.op \in OpsOf(tool)
Sent(fn) == Cardinality({i \in DOMAIN call.rt : call.rt[i][1] = fn})
Failed == call.res.type = "Error"
Unchanged == call.stable
Candidates == runtime[toolKind]
\* The matching rule as the specification words it: the lowercased query is a
\* substring of the lowercased key or of the lowercased display name (for an
\* image, of any one of its tags).
SubstringOf(q, s) == Contains(Lower(q), Lower(s))
SpecMatch(r, q) ==
    \/ SubstringOf(q, r.id)
    \/ IF toolKind = "image" THEN \E t \in Range(r.tags) : SubstringOf(q, t)
                             ELSE SubstringOf(q, r.name)
Matching == {i \in DOMAIN Candidates : SpecMatch(Candidates[i], call.arg)}
\* The identifier is verbatim the key or the canonical name of candidate i.
IsExactly(i) ==
    \/ Candidates[i].id = call.arg
    \/ IF toolKind = "image" THEN call.arg \in Range(Candidates[i].tags)
                             ELSE Candidates[i].name = call.arg

\* C1: an identifier that is verbatim the primary key (or the canonical name)
\* of a candidate resolves to exactly that candidate, by the exact lookup
\* alone: no listing follows, however many other candidates contain the
\* identifier as a substring.
C1_ExactKeyResolves ==
    (Resolving /\ call.pc \in {"list", "act", "done"} /\ Unchanged /\ ~Failed) =>
        \A i \in DOMAIN Candidates :
            IsExactly(i) =>
                /\ call.pc # "list"
                /\ call.res = Resolved(Candidates[i])
                /\ Sent("list") = 0

\* C1 witness: the exact lookup returned the candidate whose key is the
\* identifier while the substring rule matches more than one candidate.
C1_Witness ==
    /\ Resolving /\ call.pc = "act" /\ Unchanged
    /\ call.res.type = "Resolved" /\ call.res.cand.id = call.arg
    /\ Sent("list") = 0
    /\ Cardinality(Matching) > 1

\* C2: after the exact lookup reported not-found, when exactly one listed
\* candidate has the lowercased identifier as a substring of its lowercased
\* key or display name, the resolver returns that candidate; a match on the
\* key alone is enough.
C2_UniquePartialResolves ==
    (Resolving /\ call.pc \in {"act", "done"} /\ Unchanged /\ ~Failed /\ Sent("list") = 1) =>
        \A i \in DOMAIN Candidates :
            Matching = {i} => call.res = Resolved(Candidates[i])

\* C2 witness: a container found by a substring of its key that its name
\* does not contain.
C2_Witness ==
    /\ toolKind = "container" /\ call.pc = "act" /\ Unchanged /\ Sent("list") = 1
    /\ call.res.type = "Resolved"
    /\ SubstringOf(call.arg, call.res.cand.id)
    /\ ~SubstringOf(call.arg, call.res.cand.name)

\* C3: after the exact lookup reported not-found, when two or more listed
\* candidates match by substring, the resolver ends in Ambiguous, returns no
\* candidate, and the operation sends nothing else to the runtime.
C3_AmbiguousStops ==
    (Resolving /\ Sent("list") = 1 /\ Unchanged /\ ~Failed /\ Cardinality(Matching) >= 2) =>
        /\ call.pc = "done"
        /\ call.res.type = "Ambiguous" /\ call.res.cand = NoRes
        /\ call.out.kind = "ValueError" /\ call.out.text = "Ambiguous"
        /\ call.rt = << <<"get", IF toolKind = "image" THEN "ImageNotFound" ELSE "NotFound">>,
                        <<"list", "ok">> >>

\* C3 witness: remove_container ended in Ambiguous with two matching
\* containers and no remove sent.
C3_Witness ==
    /\ call.op = "remove_container" /\ call.pc = "done" /\ Unchanged
    /\ call.res.type = "Ambiguous" /\ Cardinality(Matching) = 2
    /\ Sent("remove") = 0

\* The tags an image is reported with, and those of all matching images.
ShownTags(r) == IF r.tags = <<>> THEN {NoneTag} ELSE Range(r.tags)
MatchingTags == UNION {ShownTags(Candidates[i]) : i \in Matching}
AmbiguousEnd == Resolving /\ call.pc = "done" /\ Unchanged /\ call.res.type = "Ambiguous"

\* C4 (as claimed, for a non-empty identifier): the Ambiguous failure lists
\* every matching candidate: the name of each matching container, network or
\* volume, and every tag of every matching image.
C4_FullPayload ==
    (AmbiguousEnd /\ call.arg # <<>>) =>
        \A i \in Matching :
            IF toolKind = "image"
            THEN ShownTags(Candidates[i]) \subseteq Range(call.res.names)
            ELSE Candidates[i].name \in Range(call.res.names)

\* C4 (amended): for containers, networks and volumes the Ambiguous failure
\* lists the name of every matching candidate, in listing order; for images it
\* lists distinct tags of the matching images ("<none>" for an untagged one):
\* all of them when they are at most 5, and otherwise 5 of them.
C4_PayloadUpToFiveTags ==
    AmbiguousEnd =>
        IF toolKind = "image"
        THEN /\ Range(call.res.names) \subseteq MatchingTags
             /\ Cardinality(Range(call.res.names)) = Len(call.res.names)
             /\ Len(call.res.names) =
                    IF Cardinality(MatchingTags) < 5 THEN Cardinality(MatchingTags) ELSE 5
        ELSE call.res.names =
                 NamesOf(SelectSeq(Candidates, LAMBDA r : SpecMatch(r, call.arg)))

\* C4 witness: two matching images with six tags between them, five listed.
C4_Witness ==
    /\ AmbiguousEnd /\ toolKind = "image"
    /\ Cardinality(MatchingTags) = 6
    /\ Len(call.res.names) = 5

Labels ==
    IF toolKind = "image"
    THEN Flatten([i \in DOMAIN Candidates |-> Candidates[i].tags])
    ELSE NamesOf(Candidates)

\* C6: after the exact lookup reported not-found, when no listed candidate
\* matches (the list may be empty), the resolver ends in NotFound; the
\* suggestions are at most 3, each a name (or tag) that contains the lowercased
\* identifier, in listing order, and none is there for a key match alone.
C6_NotFoundSuggestions ==
    /\ (Resolving /\ Sent("list") = 1 /\ Unchanged /\ ~Failed /\ Matching = {}) =>
          /\ call.pc = "done" /\ call.res.type = "NotFound"
          /\ call.out.kind = "ValueError" /\ call.out.text = "NotFound"
    /\ (Resolving /\ call.res.type = "NotFound") =>
          /\ Len(call.res.names) <= 3
          /\ \A j \in DOMAIN call.res.names : SubstringOf(call.arg, call.res.names[j])
          /\ Unchanged =>
                call.res.names =
                    Take(SelectSeq(Labels, LAMBDA n : SubstringOf(call.arg, n)), 3)

\* C6 witness: NotFound although the listing was not empty.
C6_Witness ==
    /\ Resolving /\ call.pc = "done" /\ Unchanged
    /\ call.res.type = "NotFound" /\ Len(Candidates) >= 1

\* C7: the listing happens only after the exact lookup raised not-found; when
\* the exact lookup raised anything else, the operation makes no other call to
\* the runtime, ends in neither NotFound nor Ambiguous, and the resolver
\* raises that same exception.
C7_FallbackOnlyOnNotFound ==
    Resolving =>
        /\ Sent("list") >= 1 =>
              call.rt[1] \in {<<"get", "NotFound">>, <<"get", "ImageNotFound">>}
        /\ (call.rt # <<>> /\ call.rt[1][2] \notin {"ok", "NotFound", "ImageNotFound"}) =>
              /\ call.pc = "done" /\ Len(call.rt) = 1
              /\ call.res = Error(call.rt[1][2])

\* C7 witness: the exact lookup failed with an APIError while the runtime
\* held candidates.
C7_Witness ==
    /\ Resolving /\ call.pc = "done" /\ Len(Candidates) >= 1
    /\ call.rt = << <<"get", "APIError">> >>
    /\ call.res.type = "Error"

\* C8: when the listing of the fallback fails, it is not repeated and nothing
\* else is sent; the resolver raises that failure, not NotFound or Ambiguous,
\* and the public operation raises RuntimeError, never ValueError.
C8_ListFailureIsHard ==
    (Resolving /\ \E i \in DOMAIN call.rt : call.rt[i][1] = "list" /\ call.rt[i][2] # "ok") =>
        /\ call.pc = "done"
        /\ Sent("list") = 1 /\ call.rt[Len(call.rt)][1] = "list"
        /\ call.res = Error(call.rt[Len(call.rt)][2])
        /\ call.out.kind = "RuntimeError"

\* C8 witness: a listing that failed after the exact lookup found nothing.
C8_Witness ==
    /\ Resolving /\ call.pc = "done" /\ Len(Candidates) >= 1
    /\ call.rt = << <<"get", "NotFound">>, <<"list", "APIError">> >>
    /\ call.out.kind = "RuntimeError"

C10_ListedKeysResolve ==
    (Resolving /\ prev.of = "list" /\ call.pc \in {"list", "act", "done"} /\ ~Failed) =>
        /\ \E i \in DOMAIN prev.items :
              call.arg = IF toolKind = "volume" THEN prev.items[i].name ELSE prev.items[i].id
        /\ call.pc # "list"
        /\ call.res.type = "Resolved"
        /\ call.arg = IF toolKind = "volume" THEN call.res.cand.name ELSE call.res.cand.id

\* C10 witness: the second of two listed items, resolved by its key.
C10_Witness ==
    /\ Resolving /\ prev.of = "list" /\ call.pc = "act"
    /\ Len(prev.items) = 2
    /\ call.arg = IF toolKind = "volume" THEN prev.items[2].name ELSE prev.items[2].id
    /\ call.res.type = "Resolved"

\* C11: the resolver keeps nothing from one call to the next.  Whatever an
\* earlier call returned and however the runtime has changed since, the
\* outcome of a call is the one the runtime it has read gives: the returned
\* candidate is in that runtime and is the exact or the single match there,
\* Ambiguous names only names (tags) of candidates matching there, NotFound
\* means nothing matches there.
C11_NoCacheAcrossCalls ==
    (Resolving /\ call.pc \in {"act", "done"} /\ Unchanged /\ ~Failed) =>
        /\ call.res.type = "Resolved" =>
              \E i \in DOMAIN Candidates :
                  /\ Candidates[i] = call.res.cand
                  /\ IsExactly(i) \/ Matching = {i}
        /\ call.res.type = "Ambiguous" =>
              /\ Cardinality(Matching) >= 2
              /\ \A n \in Range(call.res.names) :
                    \E i \in Matching :
                        IF toolKind = "image" THEN n \in ShownTags(Candidates[i])
                                              ELSE n = Candidates[i].name
        /\ call.res.type = "NotFound" =>
              /\ Matching = {}
              /\ \A i \in DOMAIN Candidates : ~IsExactly(i)

\* C11 witness: the call before, with the same identifier, resolved to a
\* resource that has since been removed; this call resolves to another one.
C11_Witness ==
    /\ Resolving /\ call.pc = "act" /\ Unchanged
    /\ prev.of = "earlier" /\ prev.res.type = "Resolved"
    /\ ~Has(Candidates, prev.res.cand.id)
    /\ call.res.type = "Resolved" /\ call.res.cand.id # prev.res.cand.id

\* The identifier q is verbatim the key or the canonical name of candidate i.
IsExactlyFor(q, i) ==
    \/ Candidates[i].id = q
    \/ IF toolKind = "image" THEN q \in Range(Candidates[i].tags)
                             ELSE Candidates[i].name = q
\* This call follows, on an unchanged runtime, a call whose identifier
\* differs from its own in letter case only.
AfterVariant ==
    /\ Resolving /\ call.pc \in {"act", "done"} /\ Unchanged /\ ~Failed
    /\ prev.of = "variant"
SameOutcome ==
    /\ call.res.type = prev.res.type
    /\ call.res.cand = prev.res.cand

\* C12 (as claimed): two identifiers that differ only in letter case give the
\* same outcome on the same runtime: the same candidate, or the same
\* Ambiguous / NotFound classification.
C12_CaseInsensitive == AfterVariant => SameOutcome

\* C12 (amended): the exact lookup takes the identifier as typed and only the
\* partial match ignores letter case: two identifiers that differ only in
\* letter case give the same outcome, payload included, when neither is
\* verbatim the key or the canonical name of a resource.
C12_PartialMatchIgnoresCase ==
    (/\ AfterVariant
     /\ \A i \in DOMAIN Candidates :
            ~IsExactlyFor(call.arg, i) /\ ~IsExactlyFor(prev.arg, i)) =>
        /\ SameOutcome
        /\ call.res = prev.res

\* C12 witness: both spellings went through the listing and resolved to the
\* same candidate.
C12_Witness ==
    /\ AfterVariant /\ Sent("list") = 1
    /\ call.arg # prev.arg
    /\ call.res.type = "Resolved" /\ call.res = prev.res

\* ------------------------------------------------- the project directory
\* Vocabulary.  The lookup has ended when res is set; the filesystem, the
\* environment and the working directory are then as the lookup read them.
\* Explicit: a path was given (C28: the empty string counts as none given).
\* Target: the directory an explicit path names.  Marked(d): d holds at least
\* one of the four marker files.
LocateEnded == comp.res.type # "none"
Explicit == comp.arg # None /\ comp.arg # EmptyStr
Target == IF comp.arg.abs THEN comp.arg.segs ELSE cwd \o comp.arg.segs
MarkerNames == {"docker-compose.yml", "docker-compose.yaml", "compose.yml", "compose.yaml"}
Marked(d) == \E n \in MarkerNames : <<d, n>> \in fs.files
\* The hints in their documented order, and whether hint k qualifies: it is
\* set, names a directory, and that directory is marked.
HintOrder == <<"MCP_PROJECT_DIR", "WORKSPACE_ROOT", "CURSOR_WORKSPACE_ROOT">>
HintDir(k) ==
    IF env[HintOrder[k]].abs THEN env[HintOrder[k]].segs
    ELSE cwd \o env[HintOrder[k]].segs
Qualifies(k) ==
    /\ env[HintOrder[k]] # None
    /\ HintDir(k) \in fs.dirs
    /\ Marked(HintDir(k))
\* The working directory and its ancestors, the root included.
Ancestors == {SubSeq(cwd, 1, n) : n \in 0..Len(cwd)}

\* C13: an explicit path that is a directory without a marker file fails
\* with NoMarkerFile; no hint is read and no other directory is tested, also
\* when a parent directory or a hint would qualify.
C13_ExplicitWithoutMarker ==
    (LocateEnded /\ Explicit /\ Target \in fs.dirs /\ ~Marked(Target)) =>
        /\ comp.res = LocateError("NoMarkerFile")
        /\ comp.pc = "done" /\ comp.out.kind = "ValueError"
        /\ comp.consulted = <<>>
        /\ Range(comp.tested) \subseteq {Target}

\* C13 witness: NoMarkerFile for an explicit directory whose parent is marked
\* while a hint qualifies.
C13_Witness ==
    /\ LocateEnded /\ Explicit /\ comp.res.type = "NoMarkerFile"
    /\ Target # Root /\ Marked(Dirname(Target))
    /\ \E k \in 1..3 : Qualifies(k)

\* C14: an explicit path that is not an existing directory fails with
\* InvalidPath, before any marker file is looked for: it is never reported
\* as NoMarkerFile and never returned.
C14_ExplicitNotADirectory ==
    (LocateEnded /\ Explicit /\ Target \notin fs.dirs) =>
        /\ comp.res = LocateError("InvalidPath")
        /\ comp.pc = "done" /\ comp.out.kind = "ValueError"
        /\ comp.tested = <<>> /\ comp.consulted = <<>>

\* C14 witness: InvalidPath for a relative path that names no directory under
\* the working directory, while the working directory itself is marked.
C14_Witness ==
    /\ LocateEnded /\ Explicit /\ comp.res.type = "InvalidPath"
    /\ ~comp.arg.abs /\ cwd # Root /\ Marked(cwd)

\* C15: with no explicit path the hints are read in the order
\* MCP_PROJECT_DIR, WORKSPACE_ROOT, CURSOR_WORKSPACE_ROOT; the first that is
\* set, is a directory and is marked is returned; the hints before it are
\* skipped without error and those after it are not read.
C15_FirstQualifyingHint ==
    (LocateEnded /\ ~Explicit) =>
        \A k \in 1..3 :
            (Qualifies(k) /\ \A j \in 1..(k - 1) : ~Qualifies(j)) =>
                /\ comp.res = ProjectRoot(HintDir(k))
                /\ comp.consulted = SubSeq(HintOrder, 1, k)

\* C15 witness: MCP_PROJECT_DIR is set and does not qualify, WORKSPACE_ROOT
\* and CURSOR_WORKSPACE_ROOT qualify with different directories, the lookup
\* returned the directory of WORKSPACE_ROOT.
C15_Witness ==
    /\ LocateEnded /\ ~Explicit
    /\ env["MCP_PROJECT_DIR"] # None /\ ~Qualifies(1)
    /\ Qualifies(2) /\ Qualifies(3) /\ HintDir(2) # HintDir(3)
    /\ comp.res = ProjectRoot(HintDir(2))

\* The lookup came to the upward walk: no explicit path, no qualifying hint.
Walked == LocateEnded /\ ~Explicit /\ \A k \in 1..3 : ~Qualifies(k)
MarkedAncestors == {d \in Ancestors : Marked(d)}

\* C16: with no explicit path and no qualifying hint, the lookup returns the
\* marked directory nearest to the working directory: the working directory
\* itself when it is marked, else its closest marked ancestor; never a
\* directory above another marked one.
C16_NearestWins ==
    Walked =>
        \A d \in MarkedAncestors :
            (\A e \in MarkedAncestors : Len(e) <= Len(d)) =>
                comp.res = ProjectRoot(d)

\* C16 witness: the working directory is not marked, its parent and the
\* parent's parent are; the parent is returned.
C16_Witness ==
    /\ Walked /\ Len(cwd) >= 2 /\ ~Marked(cwd)
    /\ Marked(Dirname(cwd)) /\ Marked(Dirname(Dirname(cwd)))
    /\ comp.res = ProjectRoot(Dirname(cwd))

\* The walk is at comp.path: it has tested, deepest first, exactly the
\* ancestors of the working directory below comp.path, each once.
WalkInProgress ==
    comp.pc = "walk" =>
        /\ comp.path \in Ancestors
        /\ \A d \in Ancestors :
              Len(d) > Len(comp.path) =>
                  Cardinality({i \in DOMAIN comp.tested : comp.tested[i] = d}) >= 1
        /\ Len(comp.tested) <= Len(comp.consulted) + Len(cwd) - Len(comp.path)
\* The walk has ended: with a marked directory, or with NoProjectFound after
\* every ancestor, the root included, was tested.
WalkEnded ==
    /\ comp.pc = "done"
    /\ \/ comp.res.type = "ProjectRoot"
       \/ /\ comp.res = LocateError("NoProjectFound")
          /\ Ancestors \subseteq Range(comp.tested)

\* C17: the upward walk terminates: every walk that has begun ends, with a
\* marked directory or, once every directory up to and including the root
\* has been tested without a match, with NoProjectFound; while it goes on it
\* moves strictly upward and tests no directory twice.
C17_WalkTerminates ==
    /\ []WalkInProgress
    /\ [][comp.pc = "walk" =>
            \/ WalkEnded'
            \/ comp'.pc = "walk" /\ Len(comp'.path) < Len(comp.path)]_allvars
    /\ (comp.pc = "walk") ~> WalkEnded

\* C17 witness: NoProjectFound from a working directory two levels deep,
\* after three directories were tested, the root last.
C17_Witness ==
    /\ comp.pc = "done" /\ comp.res.type = "NoProjectFound"
    /\ Len(cwd) >= 2 /\ comp.consulted = HintOrder
    /\ Len(comp.tested) >= 3 /\ comp.tested[Len(comp.tested)] = Root

\* The directory d holds exactly one marker file.
SingleMarker(d) == Cardinality({f \in fs.files : f[1] = d}) = 1

\* C18: every directory the lookup returns, by the explicit path, by a hint
\* or by the walk, is an absolute path (a relative explicit path or hint is
\* taken from the working directory) of an existing directory that holds a
\* marker file; and a directory holding any single one of the four marker
\* files qualifies on each of the three ways.
C18_ReturnsMarkedDirectory ==
    LocateEnded =>
        /\ comp.res.type = "ProjectRoot" =>
              /\ comp.res.path \in fs.dirs /\ Marked(comp.res.path)
              /\ Explicit => comp.res.path = Target
              /\ ~Explicit =>
                    \/ \E k \in 1..3 : Qualifies(k) /\ comp.res.path = HintDir(k)
                    \/ comp.res.path \in Ancestors
        /\ (Explicit /\ Target \in fs.dirs /\ Marked(Target)) =>
              comp.res = ProjectRoot(Target)
        /\ (~Explicit /\ \E k \in 1..3 : Qualifies(k)) =>
              comp.res.type = "ProjectRoot"
        /\ (~Explicit /\ Marked(cwd)) => comp.res.type = "ProjectRoot"

\* C18 witness: a relative explicit path, taken from a working directory
\* below the root, names a directory whose only marker file is compose.yaml;
\* that directory is returned.
C18_Witness ==
    /\ LocateEnded /\ Explicit /\ ~comp.arg.abs /\ cwd # Root
    /\ comp.res = ProjectRoot(Target)
    /\ SingleMarker(Target) /\ <<Target, "compose.yaml">> \in fs.files

\* ------------------------------------------------------ external processes
\* The invocations the object has made: the probes of its construction, or
\* the command of the operation in progress.  A probe asks for "version".
IsProbe(r) == r.cmd[Len(r.cmd)] = "version"
Streaming == comp.op = "compose_logs" /\ comp.follow

\* C19: every external process is started with a finite timeout, except the
\* command of compose_logs with follow=True: 5 seconds for the two probes,
\* 120 seconds for compose up, down, ps and scale, 60 seconds for
\* compose_logs without follow; the timeout is absent exactly for
\* compose_logs with follow=True.
C19_TimeoutUnlessFollow ==
    \A i \in DOMAIN comp.runs :
        LET r == comp.runs[i]
        IN  /\ r.timeout.bounded <=> ~(~IsProbe(r) /\ Streaming)
            /\ r.timeout.bounded => r.timeout.secs > 0
            /\ IsProbe(r) => r.timeout = [bounded |-> TRUE, secs |-> 5]
            /\ (~IsProbe(r) /\ comp.op \in {"compose_up", "compose_down",
                                           "compose_ps", "compose_scale"}) =>
                  r.timeout = [bounded |-> TRUE, secs |-> 120]
            /\ (~IsProbe(r) /\ comp.op = "compose_logs" /\ ~comp.follow) =>
                  r.timeout = [bounded |-> TRUE, secs |-> 60]

\* C19 witness: compose_logs with follow=True has run its command without
\* a timeout.
C19_Witness ==
    /\ comp.pc = "done" /\ Streaming
    /\ Len(comp.runs) = 1 /\ ~comp.runs[1].timeout.bounded

\* An invocation ended in TimeoutExpired.
TimedOut(r) == r.outcome = "TimeoutExpired"
\* The construction or the operation has ended.
Ended == comp.pc \in {"idle", "done", "failed"}

\* C20 (as claimed): a timeout of an external process, a compose command or
\* a probe, ends the call it belongs to in a failure of its own: it is the
\* last invocation of the call, and the caller gets the timed-out failure.
C20_TimeoutIsTerminal ==
    Ended =>
        \A i \in DOMAIN comp.runs :
            TimedOut(comp.runs[i]) =>
                /\ i = Len(comp.runs)
                /\ comp.pc \in {"done", "failed"}
                /\ comp.out = Raise("RuntimeError", "TimedOut", <<>>)

\* C20 (amended): a timeout of a compose command ends the operation: the
\* command is run once and the caller gets RuntimeError "timed out", which no
\* other end of the command gives.  A timeout of a probe is taken like a
\* missing executable or a non-zero exit: the first probe's leads to the
\* second probe, the second's to the one RuntimeError "Docker Compose not
\* found" of the constructor.
C20_CommandTimeoutIsTerminal ==
    /\ comp.pc = "done" =>
          /\ Len(comp.runs) <= 1
          /\ \A i \in DOMAIN comp.runs :
                TimedOut(comp.runs[i]) <=>
                    comp.out = Raise("RuntimeError", "TimedOut", <<>>)
    /\ comp.pc = "failed" =>
          /\ Len(comp.runs) = 2
          /\ \A i \in DOMAIN comp.runs : comp.runs[i].outcome # "exit0"
          /\ comp.out = Raise("RuntimeError", "ComposeNotFound", <<>>)
    /\ (comp.pc = "idle" /\ comp.runs # <<>>) =>
          /\ comp.runs[Len(comp.runs)].outcome = "exit0"
          /\ \A i \in 1..(Len(comp.runs) - 1) : comp.runs[i].outcome # "exit0"

\* C20 witness: compose_down ended in the timed-out RuntimeError after one
\* run of its command.
C20_Witness ==
    /\ comp.pc = "done" /\ comp.op = "compose_down"
    /\ Len(comp.runs) = 1 /\ TimedOut(comp.runs[1])
    /\ comp.out = Raise("RuntimeError", "TimedOut", <<>>)

\* -------------------------------------------------- failures at the caller
\* The failures of a resolve call, as the resolver raises them, and of a
\* locate call; the class of the failure the call in progress ended in.
ResolveFailures ==
    {NotFound(<<>>), Ambiguous(<<>>)} \cup {Error(e) : e \in CommErrors}
LocateFailures ==
    {LocateError(t) : t \in {"InvalidPath", "NoMarkerFile", "NoProjectFound"}}
ResolveFailed ==
    /\ tool \in Tools /\ Resolving /\ call.pc = "done"
    /\ call.res.type \in {"NotFound", "Ambiguous", "Error"}
LocateFailed ==
    /\ tool = "ComposeTools" /\ comp.pc = "done"
    /\ comp.res.type \in {"InvalidPath", "NoMarkerFile", "NoProjectFound"}

\* C21 (as claimed): the kind of the exception a public operation raises
\* tells the failure classes apart: a failure of another class would have
\* reached the caller of the same operation with another kind.
C21_KindTellsFailuresApart ==
    /\ ResolveFailed =>
          \A f \in ResolveFailures :
              f.type # call.res.type => Propagate(call.op, f).kind # call.out.kind
    /\ LocateFailed =>
          \A f \in LocateFailures :
              f.type # comp.res.type => Located(comp, f).out.kind # comp.out.kind

\* C21 (amended): the kind tells two groups apart: NotFound, Ambiguous and
\* the three failures of a locate call are all ValueError, a communication
\* failure is RuntimeError; inside the ValueError group only the message
\* tells the classes apart, and it does: each class has its own message.
C21_KindOrMessageTellsFailuresApart ==
    /\ ResolveFailed =>
          /\ call.out.kind =
                 IF call.res.type = "Error" THEN "RuntimeError" ELSE "ValueError"
          /\ \A f \in ResolveFailures :
                 f.type # call.res.type =>
                     \/ Propagate(call.op, f).kind # call.out.kind
                     \/ Propagate(call.op, f).text # call.out.text
    /\ LocateFailed =>
          /\ comp.out.kind = "ValueError"
          /\ \A f \in LocateFailures :
                 f.type # comp.res.type =>
                     /\ Located(comp, f).out.kind = comp.out.kind
                     /\ Located(comp, f).out.text # comp.out.text

\* C21 witness: a resolve call that ended in Ambiguous as ValueError.
C21_Witness ==
    /\ ResolveFailed /\ call.res.type = "Ambiguous"
    /\ call.out.kind = "ValueError" /\ call.out.text = "Ambiguous"

\* ------------------------------------ a container named to another tool
\* Vocabulary.  The call is an operation of NetworkTools or VolumeTools that
\* takes a container identifier; its lookup of the container has answered
\* (not with a failure of the runtime) and the runtime is as the call's first
\* read found it.
Containers == runtime["container"]
ContainersMatching ==
    {i \in DOMAIN Containers :
        \/ SubstringOf(call.container, Containers[i].id)
        \/ SubstringOf(call.container, Containers[i].name)}
ContainersExactly ==
    {i \in DOMAIN Containers :
        Containers[i].id = call.container \/ Containers[i].name = call.container}
ContainerLookedUp(t) ==
    /\ tool = t /\ call.op \in ContainerOps(t) /\ call.stable
    /\ call.found.type \in {"Resolved", "Ambiguous", "NotFound"}
SentTo(fn) == Cardinality({i \in DOMAIN call.rt : call.rt[i][1] = fn})

ByContainerTools(q, dir) ==
    IF DirectLookup("container", q, dir) # NoRes
    THEN Resolved(DirectLookup("container", q, dir))
    ELSE FindContainerIn(q, ListAll(dir, TRUE))

\* C30: VolumeTools._find_container ends as ContainerTools._find_container
\* does for the same identifier on the same containers: the same container,
\* or Ambiguous with the same names in the same order, or NotFound; the
\* NotFound of VolumeTools carries no suggestion.
C30_ContainerResolversAgree ==
    ContainerLookedUp("VolumeTools") =>
        LET other == ByContainerTools(call.container, Containers)
        IN  /\ call.found.type = other.type
            /\ call.found.cand = other.cand
            /\ call.found.type = "Ambiguous" => call.found.names = other.names
            /\ call.found.type = "NotFound" => call.found.names = <<>>

\* C30 witness: get_volumes_by_container found its container by a part of
\* the id that the name does not contain, among two containers.
C30_Witness ==
    /\ ContainerLookedUp("VolumeTools") /\ SentTo("containers.list") = 1
    /\ Len(Containers) = 2 /\ call.found.type = "Resolved"
    /\ ~SubstringOf(call.container, call.found.cand.name)
    /\ call.found = ByContainerTools(call.container, Containers)

\* ------------------------------------------------------- concurrent callers
\* The two calls, and what each ends in when it runs alone on the runtime,
\* the filesystem, the environment and the working directory as they are.
Frames == {[call |-> call, comp |-> comp], parked}
MatchingFor(q) == {i \in DOMAIN Candidates : SpecMatch(Candidates[i], q)}
ExactlyFor(q) == {i \in DOMAIN Candidates : IsExactlyFor(q, i)}
ResolvesAlone(q, res) ==
    IF ExactlyFor(q) # {}
    THEN \E i \in ExactlyFor(q) : res = Resolved(Candidates[i])
    ELSE /\ Cardinality(MatchingFor(q)) = 1 =>
               \E i \in MatchingFor(q) : res = Resolved(Candidates[i])
         /\ Cardinality(MatchingFor(q)) > 1 => res.type = "Ambiguous"
         /\ MatchingFor(q) = {} => res.type = "NotFound"
         /\ res = Fallback(toolKind, q, ListAll(Candidates, TRUE), hashSeed)
LocatesAlone(arg) ==
    IF arg # None /\ arg # EmptyStr
    THEN LET target == IF arg.abs THEN arg.segs ELSE cwd \o arg.segs
         IN  IF target \notin fs.dirs THEN LocateError("InvalidPath")
             ELSE IF ~Marked(target) THEN LocateError("NoMarkerFile")
             ELSE ProjectRoot(target)
    ELSE IF \E k \in 1..3 : Qualifies(k)
    THEN ProjectRoot(HintDir(CHOOSE k \in 1..3 :
                                 Qualifies(k) /\ \A j \in 1..(k - 1) : ~Qualifies(j)))
    ELSE IF MarkedAncestors # {}
    THEN ProjectRoot(CHOOSE d \in MarkedAncestors :
                         \A e \in MarkedAncestors : Len(e) <= Len(d))
    ELSE LocateError("NoProjectFound")
\* A step of one caller leaves the other caller's call as it is, or is the
\* switch to it.
OtherCallKept ==
    \/ parked' = parked
    \/ parked' = [call |-> call, comp |-> comp] /\ call' = parked.call /\ comp' = parked.comp

\* C23: two callers of one tool object, their resolve or locate calls
\* interleaved step by step over an unchanged runtime, filesystem,
\* environment and working directory: each call ends as it does alone, and
\* no step of a call changes the other call or anything the calls read.
C23_CallsDoNotInterfere ==
    /\ [](\A f \in Frames :
            /\ (tool \in Tools /\ f.call.pc \in {"act", "done"}
                   /\ f.call.res.type # "Error") =>
                  ResolvesAlone(f.call.arg, f.call.res)
            /\ (tool = "ComposeTools" /\ f.comp.res.type # "none") =>
                  f.comp.res = LocatesAlone(f.comp.arg))
    /\ [][/\ OtherCallKept
          /\ ~Quiet => UNCHANGED <<tool, runtime, hashSeed, fs, env, cwd>>]_allvars

\* C23 witness: one caller's call has ended in Ambiguous while the other
\* caller's, with another identifier, is between its exact lookup and its
\* listing.
C23_Witness ==
    /\ tool \in Tools /\ call.pc = "done" /\ call.res.type = "Ambiguous"
    /\ parked.call.pc = "list" /\ parked.call.arg # call.arg
    /\ Cardinality(MatchingFor(parked.call.arg)) = 1

\* C24: a resolver that ends in NotFound never has a suggestion to make: the
\* names (tags) that contain the identifier belong to resources that match,
\* and NotFound means the one listing held no match; so for every identifier,
\* the empty one included, the suggestion list of NotFound is empty.
C24_NoSuggestionEver ==
    (Resolving /\ call.res.type = "NotFound") =>
        /\ call.res.names = <<>>
        /\ call.out.names = <<>>
        /\ Sent("list") = 1

\* C24 witness: an image resolver ended in NotFound for a non-empty
\* identifier while the listing held tagged images.
C24_Witness ==
    /\ Resolving /\ toolKind = "image" /\ call.pc = "done" /\ Unchanged
    /\ call.res.type = "NotFound" /\ call.arg # <<>>
    /\ Len(Labels) >= 2 /\ call.res.names = <<>>

\* The steps of a resolve call that read the runtime: the exact lookup has
\* answered, the listing has answered.
ExactLookupAnswers == call.pc = "get" /\ call'.pc # "get"
ListingAnswers == call.pc = "list" /\ call'.pc # "list"
\* The names (tags) of the candidates that match, as the read finds them.
MatchingLabels ==
    IF toolKind = "image" THEN MatchingTags
    ELSE {Candidates[i].name : i \in Matching}

\* C25: with resources created and removed by others at any point of a
\* resolve call, the call reads the runtime at most twice, once by the exact
\* lookup and once by the listing.  A candidate it returns was in the runtime
\* at the read that returned it; the match set, the Ambiguous payload and
\* NotFound are those of the one listing as it was read; and the result,
\* once set, is kept whatever the runtime becomes.
C25_ReadsAreSnapshots ==
    /\ [](Resolving => Sent("get") <= 1 /\ Sent("list") <= 1)
    /\ [][/\ (ExactLookupAnswers /\ call'.res.type = "Resolved") =>
                \E i \in DOMAIN Candidates :
                    IsExactly(i) /\ call'.res.cand = Candidates[i]
          /\ (ListingAnswers /\ call'.res.type = "Resolved") =>
                \E i \in DOMAIN Candidates :
                    Matching = {i} /\ call'.res.cand = Candidates[i]
          /\ (ListingAnswers /\ call'.res.type = "Ambiguous") =>
                /\ Cardinality(Matching) >= 2
                /\ Range(call'.res.names) \subseteq MatchingLabels
          /\ (ListingAnswers /\ call'.res.type = "NotFound") => Matching = {}
          /\ (call.pc \in {"act", "done"} /\ call'.pc \in {"act", "done"}) =>
                call'.res = call.res]_allvars

\* C25 witness: the call found its candidate by the listing, and the
\* candidate has been removed from the runtime since.
C25_Witness ==
    /\ Resolving /\ call.pc = "act" /\ ~Unchanged /\ Sent("list") = 1
    /\ call.res.type = "Resolved"
    /\ ~Has(Candidates, call.res.cand.id)

\* The fields of an image that contain the identifier: its id, its tags.
FieldsContaining(q, img) ==
    (IF SubstringOf(q, img.id) THEN 1 ELSE 0)
        + Cardinality({i \in DOMAIN img.tags : SubstringOf(q, img.tags[i])})

\* C26: the image resolver counts an image once, however many of its fields
\* contain the identifier: Ambiguous needs two different matching images,
\* and an image that is the only one to match is returned, also when its id
\* and several of its tags contain the identifier.
C26_ImageCountedOnce ==
    (toolKind = "image" /\ Resolving /\ call.pc \in {"act", "done"} /\ Unchanged
       /\ ~Failed /\ Sent("list") = 1) =>
        /\ call.res.type = "Ambiguous" => Cardinality(Matching) >= 2
        /\ \A i \in DOMAIN Candidates :
              (Matching = {i} /\ FieldsContaining(call.arg, Candidates[i]) >= 2) =>
                  call.res = Resolved(Candidates[i])

\* C26 witness: the listing gave the one image whose id and two or more of
\* whose tags contain the identifier.
C26_Witness ==
    /\ toolKind = "image" /\ Resolving /\ call.pc = "act" /\ Unchanged
    /\ Sent("list") = 1 /\ call.res.type = "Resolved"
    /\ SubstringOf(call.arg, call.res.cand.id)
    /\ FieldsContaining(call.arg, call.res.cand) >= 3

\* The directories the hints read so far named: the only ones tested when
\* the walk has not begun.
HintDirsRead ==
    {k \in 1..Len(comp.consulted) :
        env[HintOrder[k]] # None /\ HintDir(k) \in fs.dirs}

\* C27: with no explicit path, the hints come before the working directory:
\* when a hint qualifies its directory is returned and no directory is
\* tested for the walk, also when the working directory is marked; the walk
\* begins, at the working directory, only when no hint qualifies.
C27_HintBeforeWalk ==
    (LocateEnded /\ ~Explicit) =>
        IF \E k \in 1..3 : Qualifies(k)
        THEN /\ \E k \in 1..3 : Qualifies(k) /\ comp.res = ProjectRoot(HintDir(k))
             /\ Len(comp.tested) = Cardinality(HintDirsRead)
        ELSE /\ comp.consulted = HintOrder
             /\ Len(comp.tested) > Cardinality(HintDirsRead)
             /\ comp.tested[Cardinality(HintDirsRead) + 1] = cwd
             /\ comp.res.type \in {"ProjectRoot", "NoProjectFound"}
             /\ comp.res.type = "ProjectRoot" => comp.res.path \in Ancestors

\* C27 witness: the working directory is marked, a hint names another
\* marked directory, and the hinted directory is returned.
C27_Witness ==
    /\ LocateEnded /\ ~Explicit /\ Marked(cwd)
    /\ \E k \in 1..3 :
          Qualifies(k) /\ HintDir(k) # cwd /\ comp.res = ProjectRoot(HintDir(k))

\* C28: the empty string as project_dir is no path given: the lookup ends
\* as it does for None in the same filesystem, environment and working
\* directory (the first qualifying hint, else the nearest marked ancestor,
\* else NoProjectFound), and never in InvalidPath or NoMarkerFile.
C28_EmptyPathIsNoPath ==
    (LocateEnded /\ comp.arg = EmptyStr) =>
        /\ comp.res = LocatesAlone(None)
        /\ comp.res.type \notin {"InvalidPath", "NoMarkerFile"}
        /\ comp.consulted # <<>>

\* C28 witness: project_dir = "", the working directory without a marker
\* file, and the lookup returned a marked directory above it.
C28_Witness ==
    /\ LocateEnded /\ comp.arg = EmptyStr
    /\ ~Marked(cwd) /\ comp.res.type = "ProjectRoot"
    /\ comp.res.path # cwd /\ comp.res.path \in Ancestors
    /\ \A k \in 1..3 : ~Qualifies(k)

\* The operation on the handle ends: the step from "act" to "done".
ActEnds(op) == call.op = op /\ call.pc = "act" /\ call'.pc = "done"
HandleRunning == call.res.cand.status = "running"

\* C29: start_container on a container found running and stop_container on
\* a container found not running send nothing to the runtime after the
\* lookup, leave the runtime as it is and return a record with the status
\* found; exec_in_container on a container found not running raises
\* RuntimeError without sending the exec.
C29_NoCallWhenAlreadyThere ==
    /\ []((toolKind = "container" /\ call.pc = "done" /\ call.res.type = "Resolved") =>
            /\ (call.op = "start_container" /\ HandleRunning) =>
                  /\ Sent("start") = 0
                  /\ call.out = Record("already running", call.res.cand, "running")
            /\ (call.op = "stop_container" /\ ~HandleRunning) =>
                  /\ Sent("stop") = 0
                  /\ call.out = Record("not running", call.res.cand, call.res.cand.status)
            /\ (call.op = "exec_in_container" /\ ~HandleRunning) =>
                  /\ Sent("exec") = 0
                  /\ call.out.kind = "RuntimeError" /\ call.out.text = "not running")
    /\ [][/\ (ActEnds("start_container") /\ HandleRunning) =>
                runtime' = runtime /\ call'.rt = call.rt
          /\ (ActEnds("stop_container") /\ ~HandleRunning) =>
                runtime' = runtime /\ call'.rt = call.rt
          /\ (ActEnds("exec_in_container") /\ ~HandleRunning) =>
                runtime' = runtime /\ call'.rt = call.rt]_allvars

\* C29 witness: start_container on a running container, found by a partial
\* match, ended "already running" with no start sent.
C29_Witness ==
    /\ call.op = "start_container" /\ call.pc = "done" /\ Unchanged
    /\ call.res.type = "Resolved" /\ HandleRunning
    /\ Sent("list") = 1 /\ Sent("start") = 0
    /\ call.out.kind = "return" /\ call.out.status = "running"

====
